---- MODULE Spec2Model ----
(***************************************************************************)
(* Context stack and request dispatch pipeline of the Flask sources under  *)
(* src/: ctx.py (AppContext, RequestContext), app.py (Flask.wsgi_app and    *)
(* the dispatch / finalize / teardown methods), wrappers.py and helpers.py *)
(* (Request.blueprints).                                                   *)
(*                                                                         *)
(* Conventions: Python None is the string "None"; a blueprint name or an   *)
(* endpoint is the sequence of its dot-separated segments, so the global   *)
(* scope (key None of the registries) is the empty sequence; a ContextVar  *)
(* token is the value the variable held before the set() that made it.     *)
(***************************************************************************)
EXTENDS Integers, Sequences, FiniteSets, TLC

\* ---------------------------------------------------------------- bounds
MaxHooks == 2
MaxDepth == 2
MaxImplicit == 2
MaxStack == 3

\* ------------------------------------------------------------- constants
None == "None"
Sentinel == "_sentinel"
GlobalScope == <<>>

ReqCtxs == {"r1", "r2"}
ExplicitAppCtxs == {"a1", "a2"}
ImplicitPool == <<"i1", "i2", "i3", "i4">>
ImplicitAppCtxs == {ImplicitPool[k] : k \in 1..MaxImplicit}
AppCtxs == ExplicitAppCtxs \cup ImplicitAppCtxs

\* execution units and the values of the two ContextVars in one of them
\* blueprint objects, by the name they were constructed with
Blueprints == {"a", "b"}

Units == {"u1", "u2"}
NoSlots == [cv_app |-> "None", cv_request |-> "None"]
Unstarted == [cv_app |-> "unstarted", cv_request |-> "unstarted"]

\* the application each explicit app context was built for
ExplicitApp == [a \in ExplicitAppCtxs |-> IF a = "a1" THEN "app1" ELSE "app2"]

\* registry keys: the global scope and the blueprints "p" and "p.c"
Scopes == {GlobalScope, <<"p">>, <<"p", "c">>}

VARIABLES
    cv_app,                 \* globals._cv_app: "None" (unset) or an AppContext
    cv_request,             \* globals._cv_request: "None" or a RequestContext
    app_tokens,             \* AppContext._cv_tokens
    req_tokens,             \* RequestContext._cv_tokens: (token, app_ctx) pairs
    ictx_app,               \* AppContext.app of the contexts made by RequestContext.push
    session,                \* RequestContext.session: "None", "session" or "null"
    url_adapter,            \* RequestContext.url_adapter is not None
    url_match,              \* what url_adapter.match() gives for the request
    open_session,           \* what session_interface.open_session does for the request
    url_rule,               \* Request.url_rule.endpoint (<<>> when url_rule is None)
    routing_exception,      \* Request.routing_exception
    url_value_preprocessors,
    before_request_funcs,
    after_request_funcs,
    teardown_request_funcs,
    teardown_appcontext_funcs,
    log,                    \* calls and signals of the current top-level call
    raised,                 \* exception the last top-level call ended with
    op,                     \* the last top-level call
    cycle,                  \* per request context: teardown runs and depth
                            \* of its current push/pop cycle
    config,                 \* Flask.config: PROPAGATE_EXCEPTIONS, TESTING, DEBUG
    error_handler_spec,     \* the registered (scope, code, class) handlers
    pc,                     \* where wsgi_app stands
    rv,                     \* the result finalize_request is given
    caught,                 \* the exception being handled
    error,                  \* `error` of wsgi_app
    from_error_handler,     \* finalize_request(..., from_error_handler)
    response,               \* `response` of wsgi_app: the value it was made from
    pending,                \* exception leaving the try block of wsgi_app
    result,                 \* how wsgi_app ended
    faults,                 \* hooks and handlers that raised during the request
    after_this,             \* RequestContext._after_request_functions
    view_calls,             \* the callbacks the view gives after_this_request
    view_raises,            \* the exceptions the view functions may raise
    entry,                  \* the slots and token lists when wsgi_app was called
    g,                      \* AppContext.g: the attribute names stored in it
    lookup,                 \* the last _find_error_handler call and its result
    sobj,                   \* a session object: its class, items and flags
    sret,                   \* the last operation on sobj and how it ended
    request,                \* RequestContext.request: a request object
    copy_of,                \* the context RequestContext.copy made it from
    unit,                   \* the execution unit (thread, task) that runs
    parked,                 \* the values of _cv_app and _cv_request in the
                            \* contexts of the units that do not run
    inherited,              \* the values a unit started with
    view_rv,                \* the value make_response is given
    made,                   \* what make_response returns or raises for it
    got_first_request,      \* App._got_first_request
    url_map,                \* App.url_map: the endpoints of its rules
    app_blueprints,         \* App.blueprints: the names registered
    nested,                 \* Blueprint._blueprints of each blueprint
    got_registered_once,    \* the blueprints with _got_registered_once set
    registering             \* the calls of Blueprint.register in progress

ctxvars == <<cv_app, cv_request, app_tokens, req_tokens, ictx_app, session,
             url_rule, routing_exception, log>>
ctxvars_nolog == <<cv_app, cv_request, app_tokens, req_tokens, ictx_app,
                   session, url_rule, routing_exception>>
wsgivars == <<pc, rv, caught, error, from_error_handler, response, pending,
              result, faults, after_this, view_calls, view_raises, entry>>
\* the state of the objects specified on their own
sessvars == <<sobj, sret>>
copyvars == <<request, copy_of>>
unitvars == <<unit, parked, inherited>>
respvars == <<view_rv, made>>
setupvars == <<got_first_request, url_map, app_blueprints, nested,
               got_registered_once, registering>>
extvars == <<sessvars, copyvars, unitvars, respvars, setupvars>>
cfgvars == <<config, error_handler_spec, url_adapter, url_match, open_session,
             url_value_preprocessors, before_request_funcs, after_request_funcs,
             teardown_request_funcs, teardown_appcontext_funcs>>

\* ------------------------------------------------------------- sequences
Last(s) == s[Len(s)]
Front(s) == SubSeq(s, 1, Len(s) - 1)
Reversed(s) == [i \in 1..Len(s) |-> s[Len(s) + 1 - i]]
Range(s) == {s[i] : i \in 1..Len(s)}

RECURSIVE Flatten(_)
Flatten(ss) == IF ss = <<>> THEN <<>> ELSE Head(ss) \o Flatten(Tail(ss))

\* an entry of the log
Ev(e, scope, f, arg) == [ev |-> e, scope |-> scope, f |-> f, arg |-> arg]
Sig(e, arg) == Ev(e, GlobalScope, 0, arg)

\* the callbacks of one registry list, tagged with their scope
Tagged(funcs, name) == [i \in 1..Len(funcs[name]) |-> <<name, funcs[name][i]>>]

\* ------------------------------------------------- helpers.py, wrappers.py
RECURSIVE split_blueprint_path(_)
split_blueprint_path(name) ==
    IF Len(name) > 1
    THEN <<name>> \o split_blueprint_path(Front(name))
    ELSE <<name>>

\* Request.blueprint: endpoint.rpartition(".")[0] when the endpoint has a dot
blueprint(endpoint) ==
    IF endpoint # <<>> /\ Len(endpoint) > 1 THEN Front(endpoint) ELSE <<>>

\* Request.blueprints
blueprints(endpoint) ==
    IF blueprint(endpoint) = <<>> THEN <<>>
    ELSE split_blueprint_path(blueprint(endpoint))

\* ------------------------------------------------------ the context state
\* The part of the state that push and pop read and write, as one record, so
\* that wsgi_app can call them as part of a larger step.
CtxState ==
    [cv_app |-> cv_app, cv_request |-> cv_request,
     app_tokens |-> app_tokens, req_tokens |-> req_tokens,
     ictx_app |-> ictx_app, session |-> session,
     url_rule |-> url_rule, routing_exception |-> routing_exception,
     log |-> <<>>, raised |-> None]

\* RequestContext.app: app.request_context(environ) and copy() give a context
\* the application of its request
ReqApp == [r \in ReqCtxs |-> IF request[r] = "req1" THEN "app1" ELSE "app2"]

AppOf(S, a) == IF a \in ExplicitAppCtxs THEN ExplicitApp[a] ELSE S.ictx_app[a]

Emit(S, e) == [S EXCEPT !.log = @ \o <<e>>]
Raise(S, exc) == [S EXCEPT !.raised = exc]

\* `request` proxy: the request of the context in the request slot
CurrentBlueprints(S) == blueprints(S.url_rule[S.cv_request])

\* -------------------------------------------------- app.py: teardown calls
\* Calls order[1..n] in turn with argument exc; k = 0 when none of them
\* raises, otherwise order[k] raises and the loop is left at that call.
CallEach_every(S, e, order, exc, k) ==
    LET calls == [i \in 1..Len(order) |-> Ev(e, order[i][1], order[i][2], exc)]
        T == [S EXCEPT !.log = @ \o calls]
    IN  IF k = 0 THEN T ELSE Raise(T, "TeardownError")
CallEach(S, e, order, exc, k) ==
    LET n == IF k = 0 THEN Len(order) ELSE k
        calls == [i \in 1..n |-> Ev(e, order[i][1], order[i][2], exc)]
        T == [S EXCEPT !.log = @ \o calls]
    IN  IF k = 0 THEN T ELSE Raise(T, "TeardownError")

\* the order Flask.do_teardown_request calls the callbacks in
TeardownRequestOrder(bps) ==
    Flatten([i \in 1..(Len(bps) + 1) |->
        Reversed(Tagged(teardown_request_funcs,
                        (bps \o <<GlobalScope>>)[i]))])

TeardownAppcontextOrder ==
    Reversed([i \in 1..Len(teardown_appcontext_funcs) |->
                 <<GlobalScope, teardown_appcontext_funcs[i]>>])

\* Flask.do_teardown_request(exc); request.blueprints needs a bound request
do_teardown_request(S, exc, k) ==
    IF S.cv_request = None THEN Raise(S, "RuntimeError")
    ELSE LET order == TeardownRequestOrder(CurrentBlueprints(S))
             T == CallEach(Emit(S, Sig("do_teardown_request", exc)),
                           "teardown_request", order, exc,
                           IF k > Len(order) THEN 0 ELSE k)
         IN  IF T.raised # None THEN T
             ELSE Emit(T, Sig("request_tearing_down", exc))

\* Flask.do_teardown_appcontext(exc)
do_teardown_appcontext(S, exc, ka) ==
    LET order == TeardownAppcontextOrder
        T == CallEach(Emit(S, Sig("do_teardown_appcontext", exc)),
                      "teardown_appcontext", order, exc,
                      IF ka > Len(order) THEN 0 ELSE ka)
    IN  IF T.raised # None THEN T
        ELSE Emit(T, Sig("appcontext_tearing_down", exc))

\* ------------------------------------------------------ ctx.py: AppContext
\* self._cv_tokens.pop(): the token taken off the list, and the list left
popped_token_first(tokens) == Head(tokens)
popped_token(tokens) == Last(tokens)
remaining_tokens(tokens) == Front(tokens)

AppContext_push(S, a) ==
    Emit([S EXCEPT !.app_tokens[a] = Append(@, S.cv_app), !.cv_app = a],
         Sig("appcontext_pushed", a))

\* `if len(self._cv_tokens) == 1` of AppContext.pop
app_outermost_any(S, a) == Len(S.app_tokens[a]) >= 1
app_outermost(S, a) == Len(S.app_tokens[a]) = 1

\* `if ctx is not self: raise AssertionError(...)` of both pops
popped_wrong_never(ctx, self) == FALSE
popped_wrong(ctx, self) == ctx # self

\* `appcontext_popped.send(self.app, ...)`, the last statement of
\* AppContext.pop; S is the state the pop started in, U the state reached
appcontext_popped_outermost_only(S, U, a) ==
    IF app_outermost(S, a) THEN Emit(U, Sig("appcontext_popped", a)) ELSE U
appcontext_popped_send(S, U, a) == Emit(U, Sig("appcontext_popped", a))

\* AppContext.pop(exc); ambient is sys.exc_info()[1] at the call
AppContext_pop(S, a, exc, ambient, ka) ==
    LET exc1 == IF exc = Sentinel THEN ambient ELSE exc
        T == IF app_outermost(S, a)
             THEN do_teardown_appcontext(S, exc1, ka)
             ELSE S
    IN  \* finally:
        IF T.cv_app = None THEN Raise(T, "LookupError")
        ELSE IF T.app_tokens[a] = <<>> THEN Raise(T, "IndexError")
        ELSE LET ctx == T.cv_app
                 U == Emit([T EXCEPT !.cv_app = popped_token(T.app_tokens[a]),
                                     !.app_tokens[a] = remaining_tokens(@)],
                           Sig("cv_app.reset", a))
             IN  IF T.raised # None THEN U
                 ELSE IF popped_wrong(ctx, a) THEN Raise(U, "AssertionError")
                 ELSE appcontext_popped_send(S, U, a)

\* -------------------------------------------------- ctx.py: RequestContext
\* the AppContext object that self.app.app_context() creates
FreshAppCtx(S) ==
    ImplicitPool[CHOOSE k \in 1..MaxImplicit :
        /\ S.ictx_app[ImplicitPool[k]] = None
        /\ \A j \in 1..(k - 1) : S.ictx_app[ImplicitPool[j]] # None]

HasFreshAppCtx(S) == \E i \in ImplicitAppCtxs : S.ictx_app[i] = None

\* RequestContext.match_request: an HTTPException of the match is caught
\* and kept on the request
\* url_rule and routing_exception are attributes of the request object,
\* which the contexts made from it by copy() share
OnRequest(f, r, v) ==
    [q \in ReqCtxs |-> IF request[q] = request[r] THEN v ELSE f[q]]

match_request_raising(S, r) ==
    LET T == Emit(S, Sig("match_request", r))
    IN  IF url_match[r].ok
        THEN [T EXCEPT !.url_rule = OnRequest(@, r, url_match[r].endpoint)]
        ELSE Raise(T, url_match[r].exc)
match_request(S, r) ==
    LET T == Emit(S, Sig("match_request", r))
    IN  IF url_match[r].ok
        THEN [T EXCEPT !.url_rule = OnRequest(@, r, url_match[r].endpoint)]
        ELSE [T EXCEPT !.routing_exception = OnRequest(@, r, url_match[r].exc)]

\* `if app_ctx is None or app_ctx.app is not self.app` of RequestContext.push
needs_app_ctx_always(S, r) == TRUE
needs_app_ctx(S, r) == S.cv_app = None \/ AppOf(S, S.cv_app) # ReqApp[r]

\* `if self.session is None` of RequestContext.push
session_unset_always(sess) == TRUE
session_unset(sess) == sess = None

\* RequestContext.push(); sess is what open_session does: it returns a
\* session ("session"), returns None ("None") or raises ("raise")
RequestContext_push(S, r, sess) ==
    LET new == needs_app_ctx(S, r)
        i == FreshAppCtx(S)
        S1 == IF new
              THEN AppContext_push([S EXCEPT !.ictx_app[i] = ReqApp[r]], i)
              ELSE S
        S2 == [S1 EXCEPT
                 !.req_tokens[r] =
                     Append(@, [old |-> S1.cv_request,
                                app_ctx |-> IF new THEN i ELSE None]),
                 !.cv_request = r]
        opened == session_unset(S2.session[r])
        S3 == IF ~opened THEN S2
              ELSE IF sess = "raise" THEN Raise(S2, "SessionError")
              ELSE Emit([S2 EXCEPT !.session[r] =
                                 IF sess = "None" THEN "null" ELSE sess],
                        Sig("open_session", r))
    IN  IF S3.raised # None THEN S3
        ELSE IF url_adapter[r] THEN match_request(S3, r)
        ELSE S3

\* `clear_request = len(self._cv_tokens) == 1` of RequestContext.pop
clear_request_always(S, r) == TRUE
clear_request_with_original(S, r) ==
    Len(S.req_tokens[r])
        + (IF copy_of[r] # None THEN Len(S.req_tokens[copy_of[r]]) ELSE 0) = 1
clear_request(S, r) == Len(S.req_tokens[r]) = 1

\* RequestContext.pop(exc); ambient is sys.exc_info()[1] at the call, k and
\* ka say which request / app teardown callback raises (0: none)
RequestContext_pop(S, r, exc, ambient, k, ka) ==
    LET clear == clear_request(S, r)
        exc1 == IF clear /\ exc = Sentinel THEN ambient ELSE exc
        T0 == IF clear THEN do_teardown_request(S, exc1, k) ELSE S
        T == IF clear /\ T0.raised = None
             THEN Emit(T0, Sig("request_close", r))
             ELSE T0
    IN  \* finally:
        IF T.cv_request = None THEN Raise(T, "LookupError")
        ELSE IF T.req_tokens[r] = <<>> THEN Raise(T, "IndexError")
        ELSE LET ctx == T.cv_request
                 tok == popped_token(T.req_tokens[r])
                 U0 == Emit([T EXCEPT !.cv_request = tok.old,
                                      !.req_tokens[r] = remaining_tokens(@)],
                            Sig("cv_request.reset", r))
                 U == IF clear THEN Emit(U0, Sig("environ_cleared", ctx))
                      ELSE U0
                 V == IF tok.app_ctx # None
                      THEN AppContext_pop([U EXCEPT !.raised = None],
                                          tok.app_ctx, exc1, ambient, ka)
                      ELSE [U EXCEPT !.raised = None]
             IN  IF V.raised # None THEN V
                 ELSE IF popped_wrong(ctx, r) THEN Raise(V, "AssertionError")
                 ELSE Raise(V, T.raised)

\* AppContext objects nothing refers to any more are gone
Referenced(S, i) ==
    \/ S.cv_app = i
    \/ \E u \in Units : parked[u].cv_app = i
    \/ \E a \in AppCtxs : i \in Range(S.app_tokens[a])
    \/ \E r \in ReqCtxs : \E j \in 1..Len(S.req_tokens[r]) :
           S.req_tokens[r][j].app_ctx = i

Collect(S) ==
    [S EXCEPT
       !.ictx_app = [i \in ImplicitAppCtxs |->
                        IF Referenced(S, i) THEN @[i] ELSE None],
       !.app_tokens = [a \in AppCtxs |->
                        IF a \in ImplicitAppCtxs /\ ~Referenced(S, a)
                        THEN <<>> ELSE @[a]]]

\* the primed context state is the record S
SetCtx(S) ==
    /\ cv_app' = S.cv_app
    /\ cv_request' = S.cv_request
    /\ app_tokens' = S.app_tokens
    /\ req_tokens' = S.req_tokens
    /\ ictx_app' = S.ictx_app
    /\ session' = S.session
    /\ url_rule' = S.url_rule
    /\ routing_exception' = S.routing_exception

\* ------------------------------------------------------------ registries
\* a registry whose list for scope s holds the callbacks 1..sh[s], in the
\* order they were appended
Hooks(sh) == [s \in Scopes |-> [i \in 1..sh[s] |-> i]]
NoHooks == Hooks([s \in Scopes |-> 0])

Matched(endpoint) == [ok |-> TRUE, endpoint |-> endpoint, exc |-> None]
NotMatched(exc) == [ok |-> FALSE, endpoint |-> <<>>, exc |-> exc]

\* ------------------------------------------- bookkeeping for the claims
\* cycle[r], for the pushes and pops of r since its token list last went
\* from empty to non-empty: runs is the number of runs of the
\* request-teardown batch (-1 until r is pushed for the first time), depth
\* the largest number of tokens r held.
NoCycle == [runs |-> -1, depth |-> 0]

Count(evs, e) == Cardinality({i \in 1..Len(evs) : evs[i].ev = e})

CycleAfterPush(r) ==
    IF req_tokens[r] = <<>>
    THEN [cycle EXCEPT ![r] = [runs |-> 0, depth |-> 1]]
    ELSE [cycle EXCEPT ![r].depth =
             IF Len(req_tokens[r]) + 1 > @ THEN Len(req_tokens[r]) + 1 ELSE @]

CycleAfterPop(r, evs) ==
    IF cycle[r].runs < 0 THEN cycle
    ELSE [cycle EXCEPT ![r].runs = @ + Count(evs, "do_teardown_request")]

\* exceptions a caller may pass to pop, with the exception in flight
PopArgs ==
    {[exc |-> Sentinel, ambient |-> None],
     [exc |-> Sentinel, ambient |-> "Err"],
     [exc |-> "Err", ambient |-> None]}

\* ------------------------------------------------------- configuration
\* default_config of Flask (app.py:255-257)
DefaultConfig ==
    [PROPAGATE_EXCEPTIONS |-> "None", TESTING |-> FALSE, DEBUG |-> FALSE]

\* AppContext.__init__ (ctx.py:316): g = app.app_ctx_globals_class(), with no
\* attribute stored
GNames == {"x", "y"}
EmptyG == [a \in ExplicitAppCtxs |-> {}]

\* a registered error handler: error_handler_spec[name][c][cls]; the result
\* None of a lookup
HandlerKey(name, c, cls) == [scope |-> name, code |-> c, cls |-> cls]
NoHandler == HandlerKey(GlobalScope, -1, None)
NoLookup == [e |-> None, blueprints |-> <<>>, handler |-> NoHandler]

\* no session object made, no operation done
NotCalled == [t |-> "not called"]
NoSession == [cls |-> None, data |-> {}, accessed |-> FALSE, modified |-> FALSE]
NoOp == [name |-> None, key |-> None, ret |-> None, exc |-> None]
InitExt ==
    /\ sobj = NoSession
    /\ sret = NoOp
    /\ request = [r \in ReqCtxs |-> IF r = "r1" THEN "req1" ELSE "req2"]
    /\ copy_of = [r \in ReqCtxs |-> None]
    /\ unit = "u1"
    /\ parked = [u \in Units |-> NoSlots]
    /\ inherited = [u \in Units |-> IF u = "u1" THEN NoSlots ELSE Unstarted]
    /\ view_rv = NotCalled
    /\ made = NotCalled
    /\ got_first_request = FALSE
    /\ url_map = {}
    /\ app_blueprints = {}
    /\ nested = [b \in Blueprints |-> <<>>]
    /\ got_registered_once = {}
    /\ registering = <<>>

NoResult == [kind |-> "none", val |-> None]

\* the slots and the token lists of a state S
Slots(S) ==
    [cv_app |-> S.cv_app, cv_request |-> S.cv_request,
     app_tokens |-> S.app_tokens, req_tokens |-> S.req_tokens]
NoEntry ==
    [cv_app |-> None, cv_request |-> None,
     app_tokens |-> [a \in AppCtxs |-> <<>>],
     req_tokens |-> [r \in ReqCtxs |-> <<>>]]

\* wsgi_app is not running
IdleWsgi ==
    /\ pc = "idle"
    /\ rv = None
    /\ caught = None
    /\ error = None
    /\ from_error_handler = FALSE
    /\ response = None
    /\ pending = None
    /\ result = NoResult
    /\ faults = 0
    /\ after_this = <<>>
    /\ view_calls = <<>>
    /\ view_raises = {}
    /\ entry = NoEntry

\* ------------------------------------------ manual pushes and pops (ctx.py)
InitCtx ==
    /\ cv_app = None
    /\ cv_request = None
    /\ app_tokens = [a \in AppCtxs |-> <<>>]
    /\ req_tokens = [r \in ReqCtxs |-> <<>>]
    /\ ictx_app = [i \in ImplicitAppCtxs |-> None]
    /\ session = [r \in ReqCtxs |-> None]
    /\ url_adapter = [r \in ReqCtxs |-> TRUE]
    /\ url_match = [r \in ReqCtxs |->
                      IF r = "r1" THEN Matched(<<"index">>)
                      ELSE NotMatched("NotFound")]
    /\ open_session = [r \in ReqCtxs |-> IF r = "r1" THEN "session" ELSE "None"]
    /\ url_rule = [r \in ReqCtxs |-> <<>>]
    /\ routing_exception = [r \in ReqCtxs |-> None]
    /\ url_value_preprocessors = NoHooks
    /\ before_request_funcs = NoHooks
    /\ after_request_funcs = NoHooks
    /\ teardown_request_funcs = Hooks([s \in Scopes |-> MaxHooks])
    /\ teardown_appcontext_funcs = [i \in 1..MaxHooks |-> i]
    /\ log = <<>>
    /\ raised = None
    /\ op = [name |-> "init", ctx |-> None]
    /\ cycle = [r \in ReqCtxs |-> NoCycle]
    /\ config = DefaultConfig
    /\ error_handler_spec = {}
    /\ g = EmptyG
    /\ lookup = NoLookup
    /\ InitExt
    /\ IdleWsgi

\* pushes of explicit app contexts and of request contexts not yet popped
RECURSIVE SumLen(_, _)
SumLen(f, D) ==
    IF D = {} THEN 0
    ELSE LET d == CHOOSE x \in D : TRUE
         IN  Len(f[d]) + SumLen(f, D \ {d})

Outstanding == SumLen(app_tokens, ExplicitAppCtxs) + SumLen(req_tokens, ReqCtxs)

AppPush(a) ==
    /\ Len(app_tokens[a]) < MaxDepth
    /\ Outstanding < MaxStack
    /\ LET S == AppContext_push(CtxState, a)
       IN  /\ SetCtx(Collect(S))
           /\ log' = S.log
           /\ raised' = S.raised
    /\ op' = [name |-> "AppContext.push", ctx |-> a]
    /\ UNCHANGED <<extvars, lookup, g, cfgvars, cycle, wsgivars>>

AppPop(a, args, ka) ==
    /\ ka <= (IF app_outermost(CtxState, a) THEN Len(TeardownAppcontextOrder) ELSE 0)
    /\ LET S == AppContext_pop(CtxState, a, args.exc, args.ambient, ka)
       IN  /\ SetCtx(Collect(S))
           /\ log' = S.log
           /\ raised' = S.raised
    /\ op' = [name |-> "AppContext.pop", ctx |-> a]
    /\ UNCHANGED <<extvars, lookup, g, cfgvars, cycle, wsgivars>>

ReqPush(r, sess) ==
    /\ Len(req_tokens[r]) < MaxDepth
    /\ Outstanding < MaxStack
    /\ needs_app_ctx(CtxState, r) => HasFreshAppCtx(CtxState)
    /\ LET S == RequestContext_push(CtxState, r, sess)
       IN  /\ SetCtx(Collect(S))
           /\ log' = S.log
           /\ raised' = S.raised
    /\ op' = [name |-> "RequestContext.push", ctx |-> r]
    /\ cycle' = CycleAfterPush(r)
    /\ UNCHANGED <<extvars, lookup, g, cfgvars, wsgivars>>

ReqPop(r, args, k, ka) ==
    /\ k <= (IF clear_request(CtxState, r) /\ cv_request # None
             THEN Len(TeardownRequestOrder(CurrentBlueprints(CtxState)))
             ELSE 0)
    /\ ka <= (IF req_tokens[r] # <<>> /\ Last(req_tokens[r]).app_ctx # None
              THEN Len(TeardownAppcontextOrder) ELSE 0)
    /\ LET S == RequestContext_pop(CtxState, r, args.exc, args.ambient, k, ka)
       IN  /\ SetCtx(Collect(S))
           /\ log' = S.log
           /\ raised' = S.raised
           /\ cycle' = CycleAfterPop(r, S.log)
    /\ op' = [name |-> "RequestContext.pop", ctx |-> r]
    /\ UNCHANGED <<extvars, lookup, g, cfgvars, wsgivars>>

MaxTeardown == 3 * MaxHooks

\* The caller of push and pop does not catch what they raise: an exception
\* (a mismatched or unmatched pop, a failing teardown callback) ends the run
\* of the execution unit, nothing is pushed or popped after it.
Fatal == raised # None

NextCtx ==
    /\ ~Fatal
    /\ \/ \E a \in ExplicitAppCtxs : AppPush(a)
       \/ \E a \in ExplicitAppCtxs, args \in PopArgs, ka \in 0..MaxHooks :
             AppPop(a, args, ka)
       \/ \E r \in ReqCtxs : ReqPush(r, open_session[r])
       \/ \E r \in ReqCtxs, args \in PopArgs, k \in 0..MaxTeardown,
             ka \in 0..MaxHooks : ReqPop(r, args, k, ka)

vars == <<cv_app, cv_request, app_tokens, req_tokens, ictx_app, session,
          url_adapter, url_match, open_session, url_rule, routing_exception,
          url_value_preprocessors, before_request_funcs, after_request_funcs,
          teardown_request_funcs, teardown_appcontext_funcs,
          log, raised, op, cycle, config, error_handler_spec,
          pc, rv, caught, error, from_error_handler, response, pending,
          result, faults, after_this, view_calls, view_raises, entry, g, lookup,
          sobj, sret, request, copy_of, unit, parked, inherited, view_rv,
          made, got_first_request, url_map, app_blueprints, nested,
          got_registered_once, registering>>

SpecCtx == InitCtx /\ [][NextCtx]_vars

\* ------------------------------------------------- the namespace g
\* `g.name = value` through the proxy g of globals.py:45-47: the attribute
\* is stored in the g of the current application context; with no current
\* application context the proxy raises RuntimeError.
SetG(name) ==
    /\ IF cv_app = None
       THEN raised' = "RuntimeError" /\ UNCHANGED g
       ELSE /\ cv_app \in ExplicitAppCtxs
            /\ name \notin g[cv_app]
            /\ g' = [g EXCEPT ![cv_app] = @ \cup {name}]
            /\ raised' = None
    /\ log' = <<>>
    /\ op' = [name |-> "g.setattr", ctx |-> cv_app]
    /\ UNCHANGED <<extvars, lookup, ctxvars_nolog, cfgvars, cycle, wsgivars>>

\* explicit application contexts pushed, written to through g, and popped
NextG ==
    /\ ~Fatal
    /\ \/ \E a \in ExplicitAppCtxs : AppPush(a)
       \/ \E a \in ExplicitAppCtxs, args \in PopArgs, ka \in 0..MaxHooks :
             AppPop(a, args, ka)
       \/ \E name \in GNames : SetG(name)

SpecG == InitCtx /\ [][NextG]_vars

\* ---------------------------------------------------------- exceptions
\* werkzeug's HTTPException classes used here (the base class has no code),
\* RoutingException among them, and a BaseException that is not an Exception
HTTPExceptions ==
    {"HTTPException", "NotFound", "RequestRedirect", "InternalServerError"}
RoutingExceptions == {"RequestRedirect"}
BaseExceptions == {"GeneratorExit"}

\* HTTPException.code; 0 stands for no code
code_of(e) ==
    CASE e = "NotFound" -> 404
      [] e = "RequestRedirect" -> 308
      [] e = "InternalServerError" -> 500
      [] OTHER -> 0

\* type(e).__mro__ up to Exception
mro(e) ==
    IF e = "HTTPException" THEN <<e, "Exception">>
    ELSE IF e \in HTTPExceptions THEN <<e, "HTTPException", "Exception">>
    ELSE <<e, "Exception">>

\* ------------------------------------ sansio/app.py: error handler lookup

\* App._find_error_handler(e, blueprints)
find_error_handler_class_only(e, bps) ==
    LET names == bps \o <<GlobalScope>>
        cands == Flatten([ni \in 1..Len(names) |->
                     [mi \in 1..Len(mro(e)) |->
                        HandlerKey(names[ni], 0, mro(e)[mi])]])
        hits == {i \in 1..Len(cands) : cands[i] \in error_handler_spec}
    IN  IF hits = {} THEN NoHandler
        ELSE cands[CHOOSE i \in hits : \A j \in hits : i <= j]
find_error_handler_scope_first(e, bps) ==
    LET names == bps \o <<GlobalScope>>
        codes == IF code_of(e) # 0 THEN <<code_of(e), 0>> ELSE <<0>>
        cands == Flatten([ni \in 1..Len(names) |->
                   Flatten([ci \in 1..Len(codes) |->
                     [mi \in 1..Len(mro(e)) |->
                        HandlerKey(names[ni], codes[ci], mro(e)[mi])]])])
        hits == {i \in 1..Len(cands) : cands[i] \in error_handler_spec}
    IN  IF hits = {} THEN NoHandler
        ELSE cands[CHOOSE i \in hits : \A j \in hits : i <= j]
find_error_handler(e, bps) ==
    LET names == bps \o <<GlobalScope>>
        codes == IF code_of(e) # 0 THEN <<code_of(e), 0>> ELSE <<0>>
        cands == Flatten([ci \in 1..Len(codes) |->
                   Flatten([ni \in 1..Len(names) |->
                     [mi \in 1..Len(mro(e)) |->
                        HandlerKey(names[ni], codes[ci], mro(e)[mi])]])])
        hits == {i \in 1..Len(cands) : cands[i] \in error_handler_spec}
    IN  IF hits = {} THEN NoHandler
        ELSE cands[CHOOSE i \in hits : \A j \in hits : i <= j]

\* Scaffold.register_error_handler(code_or_exception, f) of the application
\* (name = GlobalScope) or of a blueprint, merged into the application under
\* the blueprint's name: the handler is stored under the class and its code
register_error_handler(spec, name, cls) ==
    spec \cup {HandlerKey(name, code_of(cls), cls)}

\* App.trap_http_exception(e) under the default TRAP_HTTP_EXCEPTIONS = False,
\* TRAP_BAD_REQUEST_ERRORS = None: only a BadRequestKeyError in debug mode
trap_http_exception(e) == config.DEBUG /\ e = "BadRequestKeyError"

\* App.should_ignore_error(error)
should_ignore_error_always(e) == TRUE
should_ignore_error(e) == FALSE

\* `propagate` of Flask.handle_exception
propagate_exceptions_setting_only == config.PROPAGATE_EXCEPTIONS = "True"
propagate_exceptions ==
    IF config.PROPAGATE_EXCEPTIONS = "None"
    THEN config.TESTING \/ config.DEBUG
    ELSE config.PROPAGATE_EXCEPTIONS = "True"

\* Flask.raise_routing_exception(request): the exception it raises
raise_routing_exception(e, method) ==
    IF \/ ~config.DEBUG
       \/ e # "RequestRedirect"
       \/ code_of(e) \in {307, 308}
       \/ method \in {"GET", "HEAD", "OPTIONS"}
    THEN e
    ELSE "FormDataRoutingRedirect"

\* Flask.make_response(rv) raises TypeError for None and unsupported types
valid_rv(v) == v \notin {None, "bad_type"}

\* the status of the response made from v
status_of(v) == IF code_of(v) # 0 THEN code_of(v) ELSE 200

\* ------------------------------------------------- app.py: hook orders
\* the callbacks of the scopes `names`, scope by scope, each list in
\* append order or, with reversedLists, reversed
HookOrder(funcs, names, reversedLists) ==
    Flatten([i \in 1..Len(names) |->
        IF reversedLists THEN Reversed(Tagged(funcs, names[i]))
        ELSE Tagged(funcs, names[i])])

\* `names = (None, *reversed(request.blueprints))` of preprocess_request
preprocess_names_inner_first(bps) == bps \o <<GlobalScope>>
preprocess_names(bps) == <<GlobalScope>> \o Reversed(bps)

\* `chain(request.blueprints, (None,))` of process_response
process_names(bps) == bps \o <<GlobalScope>>

BeforeOrder(bps) == HookOrder(before_request_funcs, preprocess_names(bps), FALSE)
UrlOrder(bps) == HookOrder(url_value_preprocessors, preprocess_names(bps), FALSE)
AfterOrder_append(bps) ==
    HookOrder(after_request_funcs, process_names(bps), FALSE)
AfterOrder(bps) == HookOrder(after_request_funcs, process_names(bps), TRUE)

\* process_response: `for func in ctx._after_request_functions` comes
\* before the after_request functions; with the mutant it comes after them
Named3(order, e) == [i \in 1..Len(order) |-> <<order[i][1], order[i][2], e>>]
AfterThisOrder ==
    [i \in 1..Len(after_this) |-> <<GlobalScope, after_this[i], "after_this_request">>]
ResponseOrder_this_last(bps) ==
    Named3(AfterOrder(bps), "after_request") \o AfterThisOrder
ResponseOrder(bps) ==
    AfterThisOrder \o Named3(AfterOrder(bps), "after_request")

\* the calls order[1..n], the last one with outcome `last`, the others `mid`
Calls(e, order, n, mid, last) ==
    [i \in 1..n |-> Ev(e, order[i][1], order[i][2], IF i = n THEN last ELSE mid)]

\* `if rv is None: rv = self.dispatch_request()` of full_dispatch_request
dispatch_skipped_never(v) == FALSE
dispatch_skipped(v) == v # None

\* ------------------------------------------------------ app.py: wsgi_app
\* at most MaxFaults of the hooks, error handlers and teardown callbacks of
\* one request raise (the view function and open_session are not counted)
MaxFaults == 1
RequestMethod == "GET"
W == "r1"

MayFail == faults < MaxFaults

Goto(p) == pc' = p

\* ctx = self.request_context(environ); ctx.push()
W_Push ==
    /\ pc = "start"
    /\ needs_app_ctx(CtxState, W) => HasFreshAppCtx(CtxState)
    /\ entry' = Slots(CtxState)
    /\ LET S == RequestContext_push(CtxState, W, open_session[W])
       IN  /\ SetCtx(Collect(S))
           /\ log' = log \o S.log
           /\ cycle' = CycleAfterPush(W)
           /\ IF S.raised # None
              THEN /\ Goto("handle_exception")
                   /\ caught' = S.raised
              ELSE /\ Goto("full_dispatch_request")
                   /\ UNCHANGED caught
    /\ UNCHANGED <<extvars, after_this, view_calls, view_raises,
                   lookup, g, cfgvars, raised, op, rv, error, from_error_handler,
                   response, pending, result, faults>>

\* full_dispatch_request, from `self._got_first_request = True` up to the end
\* of preprocess_request.  o.kind says
\* how the hooks behave: every hook returns None ("pass"), URL preprocessor
\* o.at raises ("url_raise"), before-request hook o.at returns a value
\* ("value") or raises ("raise").
PreOutcomes(bps) ==
    {[kind |-> "pass", at |-> 0]}
    \cup {[kind |-> "url_raise", at |-> j] : j \in 1..Len(UrlOrder(bps))}
    \cup {[kind |-> k, at |-> j] :
             k \in {"value", "raise"}, j \in 1..Len(BeforeOrder(bps))}

preprocess_request(bps, o) ==
    LET U == UrlOrder(bps)
        B == BeforeOrder(bps)
    IN  IF o.kind = "url_raise"
        THEN Calls("url_value_preprocessor", U, o.at, None, "raise")
        ELSE Calls("url_value_preprocessor", U, Len(U), None, None)
             \o (IF o.kind = "pass"
                 THEN Calls("before_request", B, Len(B), None, None)
                 ELSE Calls("before_request", B, o.at, None, o.kind))

W_Preprocess ==
    /\ pc = "full_dispatch_request"
    /\ \E o \in PreOutcomes(CurrentBlueprints(CtxState)) :
          /\ o.kind \in {"url_raise", "raise"} => MayFail
          /\ got_first_request' = TRUE
          /\ log' = log \o <<Sig("request_started", W)>>
                        \o preprocess_request(CurrentBlueprints(CtxState), o)
          /\ IF o.kind \in {"url_raise", "raise"}
             THEN /\ Goto("handle_user_exception")
                  /\ caught' = "KeyError"
                  /\ faults' = faults + 1
                  /\ rv' = rv
             ELSE /\ rv' = IF o.kind = "value" THEN "before_rv" ELSE None
                  /\ Goto(IF dispatch_skipped(rv') THEN "finalize_request"
                          ELSE "dispatch_request")
                  /\ UNCHANGED <<caught, faults>>
    /\ UNCHANGED <<sessvars, copyvars, unitvars, respvars, url_map,
                   app_blueprints, nested, got_registered_once, registering,
                   after_this, view_calls, view_raises, entry,
                   lookup, g, cfgvars, ctxvars_nolog, raised, op, cycle, error,
                   from_error_handler, response, pending, result>>

\* dispatch_request: the stored routing exception, or the view function
ViewRaises == {"KeyError", "NotFound", "GeneratorExit"}
ViewOutcomes == {"view_rv", None} \cup view_raises

\* after_this_request(f), called by the view for each of its callbacks
\* when it starts: `ctx._after_request_functions.append(f)`
after_this_request_prepend(funcs, fs) == fs \o funcs
after_this_request(funcs, fs) == funcs \o fs

W_Dispatch ==
    /\ pc = "dispatch_request"
    /\ IF routing_exception[W] # None
       THEN /\ caught' = raise_routing_exception(routing_exception[W],
                                                 RequestMethod)
            /\ log' = log \o <<Sig("raise_routing_exception", caught')>>
            /\ Goto("handle_user_exception")
            /\ UNCHANGED <<rv, error, pending, faults, after_this>>
       ELSE \E out \in ViewOutcomes :
            /\ log' = log \o <<Ev("view", blueprint(url_rule[W]), 0, out)>>
            /\ after_this' = after_this_request(after_this, view_calls)
            /\ UNCHANGED faults
            /\ IF out \in {"view_rv", None}
               THEN /\ rv' = out
                    /\ Goto("finalize_request")
                    /\ UNCHANGED <<caught, error, pending>>
               ELSE IF out \in BaseExceptions
               THEN /\ error' = out
                    /\ pending' = out
                    /\ Goto("pop")
                    /\ UNCHANGED <<rv, caught>>
               ELSE /\ caught' = out
                    /\ Goto("handle_user_exception")
                    /\ UNCHANGED <<rv, error, pending>>
    /\ UNCHANGED <<extvars, view_calls, view_raises, entry, lookup, g, cfgvars,
                   ctxvars_nolog, raised,
                   op, cycle, from_error_handler, response, result>>

\* what calling a registered error handler gives: a value, None or an
\* exception
HandlerOutcomes(value) == {value, None, "raise"}

\* `if e.code is None: return e` and `if isinstance(e, RoutingException):
\* return e` of handle_http_exception, before the handler lookup
returned_unhandled_no_code_only(e) == code_of(e) = 0
returned_unhandled(e) == code_of(e) = 0 \/ e \in RoutingExceptions

\* handle_user_exception(e), with handle_http_exception(e)
W_UserException ==
    /\ pc = "handle_user_exception"
    /\ LET e == caught
           h == find_error_handler(e, CurrentBlueprints(CtxState))
           asResponse ==
               /\ e \in HTTPExceptions
               /\ ~trap_http_exception(e)
               /\ \/ returned_unhandled(e)
                  \/ h = NoHandler
       IN  IF asResponse
           THEN /\ rv' = e
                /\ Goto("finalize_request")
                /\ UNCHANGED <<log, caught, faults>>
           ELSE IF h = NoHandler
           THEN /\ Goto("handle_exception")
                /\ UNCHANGED <<log, rv, caught, faults>>
           ELSE \E out \in HandlerOutcomes("handler_rv") :
                /\ out = "raise" => MayFail
                /\ log' = log \o <<Ev("error_handler", h.scope, h.code, e)>>
                /\ IF out = "raise"
                   THEN /\ caught' = "HandlerError"
                        /\ faults' = faults + 1
                        /\ Goto("handle_exception")
                        /\ rv' = rv
                   ELSE /\ rv' = out
                        /\ Goto("finalize_request")
                        /\ UNCHANGED <<caught, faults>>
    /\ UNCHANGED <<extvars, after_this, view_calls, view_raises, entry,
                   lookup, g, cfgvars, ctxvars_nolog, raised, op, cycle, error,
                   from_error_handler, response, pending, result>>

\* process_response(response), for a request that registered no function
\* with after_this_request: after-request hook o.at raises (0: none),
\* then save_session unless the session is a null session (o.save says
\* whether it raises), then the request_finished signal of finalize_request
\* (o.fin says whether a receiver of the signal raises)
PostOutcomes(bps) ==
    {[at |-> j, save |-> s, fin |-> f] :
        j \in 0..Len(ResponseOrder(bps)), s \in {"ok", "raise"},
        f \in {"ok", "raise"}}

\* `if not self.session_interface.is_null_session(ctx.session)`
saves_session_always(sess) == TRUE
saves_session(sess) == sess # "null"

process_response(bps, o) ==
    LET A == ResponseOrder(bps)
        n == IF o.at # 0 THEN o.at ELSE Len(A)
        calls == [i \in 1..n |->
                    Ev(A[i][3], A[i][1], A[i][2],
                       IF i = o.at THEN "raise" ELSE "ok")]
    IN  IF o.at # 0 THEN calls
        ELSE calls
             \o (IF saves_session(session[W])
                 THEN <<Sig("save_session", o.save)>> ELSE <<>>)

\* process_response raised / the try block of finalize_request raised
ProcessFails(o) == o.at # 0 \/ (saves_session(session[W]) /\ o.save = "raise")
PostFails(o) == ProcessFails(o) \/ o.fin = "raise"

\* `except Exception: if not from_error_handler: raise` of finalize_request
logs_and_swallows_never(flag) == FALSE
logs_and_swallows(flag) == flag

\* `return self.finalize_request(rv)` of full_dispatch_request stands after
\* the try block: what it raises is not given to handle_user_exception, it
\* leaves full_dispatch_request and reaches `except Exception` of wsgi_app
after_finalize_error_in_try == "handle_user_exception"
after_finalize_error == "handle_exception"

\* finalize_request(rv, from_error_handler)
W_Finalize ==
    /\ pc = "finalize_request"
    /\ IF ~valid_rv(rv)
       THEN /\ log' = log \o <<Sig("make_response", rv)>>
            /\ IF from_error_handler
               THEN /\ pending' = "TypeError"
                    /\ Goto("pop")
                    /\ UNCHANGED caught
               ELSE /\ caught' = "TypeError"
                    /\ Goto(after_finalize_error)
                    /\ UNCHANGED pending
            /\ UNCHANGED <<response, faults>>
       ELSE \E o \in PostOutcomes(CurrentBlueprints(CtxState)) :
            /\ PostFails(o) => MayFail
            /\ ~saves_session(session[W]) => o.save = "ok"
            /\ o.at # 0 => o.save = "ok"
            /\ ProcessFails(o) => o.fin = "ok"
            /\ log' = log \o <<Sig("make_response", rv)>>
                          \o process_response(CurrentBlueprints(CtxState), o)
                          \o (IF ~PostFails(o)
                              THEN <<Sig("request_finished", rv)>>
                              ELSE <<>>)
                          \o (IF o.fin = "raise"
                              THEN <<Sig("request_finished", "raise")>>
                              ELSE <<>>)
                          \o (IF PostFails(o) /\ logs_and_swallows(from_error_handler)
                              THEN <<Sig("logger.exception", rv)>>
                              ELSE <<>>)
            /\ faults' = IF PostFails(o) THEN faults + 1 ELSE faults
            /\ IF PostFails(o) /\ ~logs_and_swallows(from_error_handler)
               THEN /\ caught' = IF o.at # 0 THEN "KeyError"
                               ELSE IF o.fin = "raise" THEN "SignalError"
                               ELSE "SaveError"
                    /\ Goto(after_finalize_error)
                    /\ UNCHANGED <<response, pending>>
               ELSE /\ response' = rv
                    /\ Goto("pop")
                    /\ UNCHANGED <<caught, pending>>
    /\ UNCHANGED <<extvars, after_this, view_calls, view_raises, entry,
                   lookup, g, cfgvars, ctxvars_nolog, raised, op, cycle, rv, error,
                   from_error_handler, result>>

\* `server_error = InternalServerError(original_exception=e)`
server_error_unwrapped(e) == e
server_error(e) == "InternalServerError"

\* `except Exception as e: error = e; response = self.handle_exception(e)`
\* up to the call of finalize_request
W_HandleException ==
    /\ pc = "handle_exception"
    /\ error' = caught
    /\ LET h == find_error_handler(server_error(caught),
                                   CurrentBlueprints(CtxState))
           sent == <<Sig("got_request_exception", caught)>>
       IN  IF propagate_exceptions
           THEN /\ pending' = caught
                /\ log' = log \o sent
                /\ Goto("pop")
                /\ UNCHANGED <<rv, from_error_handler, faults>>
           ELSE IF h = NoHandler
           THEN /\ rv' = server_error(caught)
                /\ from_error_handler' = TRUE
                /\ log' = log \o sent \o <<Sig("log_exception", caught)>>
                /\ Goto("finalize_request")
                /\ UNCHANGED <<pending, faults>>
           ELSE \E out \in HandlerOutcomes("handler500_rv") :
                /\ out = "raise" => MayFail
                /\ log' = log \o sent \o <<Sig("log_exception", caught),
                              Ev("error_handler", h.scope, h.code,
                                 server_error(caught))>>
                /\ IF out = "raise"
                   THEN /\ pending' = "HandlerError"
                        /\ faults' = faults + 1
                        /\ Goto("pop")
                        /\ UNCHANGED <<rv, from_error_handler>>
                   ELSE /\ rv' = out
                        /\ from_error_handler' = TRUE
                        /\ Goto("finalize_request")
                        /\ UNCHANGED <<pending, faults>>
    /\ UNCHANGED <<extvars, after_this, view_calls, view_raises, entry,
                   lookup, g, cfgvars, ctxvars_nolog, raised, op, cycle, caught,
                   response, result>>

\* the `finally:` of wsgi_app runs on a return and on an exception alike
pop_on_exit_return_only(p) == p = None
pop_on_exit(p) == TRUE

\* `return response(environ, start_response)` and the finally block:
\* ctx.pop(error); k and ka say which teardown callback raises (0: none)
W_Pop ==
    /\ pc = "pop"
    /\ IF pop_on_exit(pending)
       THEN \E k \in 0..Len(TeardownRequestOrder(CurrentBlueprints(CtxState))),
               ka \in 0..Len(TeardownAppcontextOrder) :
            /\ (IF k # 0 THEN 1 ELSE 0) + (IF ka # 0 THEN 1 ELSE 0)
                   <= MaxFaults - faults
            /\ LET err == IF error # None /\ should_ignore_error(error)
                          THEN None ELSE error
                   S == RequestContext_pop(CtxState, W, err, pending, k, ka)
               IN  /\ SetCtx(Collect(S))
                   /\ log' = log \o (IF pending = None
                                     THEN <<Sig("response_call", response)>>
                                     ELSE <<>>) \o S.log
                   /\ cycle' = CycleAfterPop(W, S.log)
                   /\ raised' = S.raised
                   /\ faults' = faults + (IF k # 0 THEN 1 ELSE 0)
                                       + (IF ka # 0 THEN 1 ELSE 0)
                   /\ result' =
                        IF S.raised # None
                        THEN [kind |-> "raised", val |-> S.raised]
                        ELSE IF pending # None
                        THEN [kind |-> "raised", val |-> pending]
                        ELSE [kind |-> "returned", val |-> response]
       ELSE /\ result' = [kind |-> "raised", val |-> pending]
            /\ UNCHANGED <<ctxvars, cycle, raised, faults>>
    /\ Goto("done")
    /\ UNCHANGED <<extvars, after_this, view_calls, view_raises, entry,
                   lookup, g, cfgvars, op, rv, caught, error, from_error_handler,
                   response, pending>>

\* the configurations a request is served under
PolicySetups ==
    {DefaultConfig,
     [DefaultConfig EXCEPT !.PROPAGATE_EXCEPTIONS = "False", !.TESTING = TRUE],
     [DefaultConfig EXCEPT !.PROPAGATE_EXCEPTIONS = "True"],
     [DefaultConfig EXCEPT !.TESTING = TRUE],
     [DefaultConfig EXCEPT !.DEBUG = TRUE]}

\* the handlers registered; a handler for the base class HTTPException is
\* one that a lookup for the InternalServerError wrapper finds by the mro
HandlerSetups ==
    {{},
     {HandlerKey(GlobalScope, 0, "KeyError")},
     {HandlerKey(GlobalScope, 500, "InternalServerError"),
      HandlerKey(GlobalScope, 0, "TypeError")},
     {HandlerKey(GlobalScope, 0, "HTTPException")}}

\* the pairs of configuration and registered handlers a request is served
\* under: every handler setup under the default configuration, and every
\* configuration without handlers
Setups ==
    {[config |-> DefaultConfig, handlers |-> h] : h \in HandlerSetups}
      \cup {[config |-> c, handlers |-> {}] : c \in PolicySetups}

Requests ==
    {Matched(<<"index">>), Matched(<<"p", "c", "view">>),
     NotMatched("NotFound"), NotMatched("RequestRedirect")}

\* the state in which wsgi_app is called, for an application set up in one
\* of the ways `setups` whose views give after_this_request the callbacks fs
\* and may raise the exceptions excs
InitWsgiWith(setups, fs, excs) ==
    /\ cv_app = None
    /\ cv_request = None
    /\ app_tokens = [a \in AppCtxs |-> <<>>]
    /\ req_tokens = [r \in ReqCtxs |-> <<>>]
    /\ ictx_app = [i \in ImplicitAppCtxs |-> None]
    /\ session = [r \in ReqCtxs |-> None]
    /\ url_adapter = [r \in ReqCtxs |-> TRUE]
    /\ \E m \in Requests :
          url_match = [r \in ReqCtxs |->
                          IF r = W THEN m ELSE NotMatched("NotFound")]
    /\ \E o \in {"session", "None", "raise"} :
          open_session = [r \in ReqCtxs |-> IF r = W THEN o ELSE "None"]
    /\ url_rule = [r \in ReqCtxs |-> <<>>]
    /\ routing_exception = [r \in ReqCtxs |-> None]
    /\ \E n \in {0, MaxHooks} :
          /\ url_value_preprocessors = Hooks([s \in Scopes |-> n])
          /\ before_request_funcs = Hooks([s \in Scopes |-> n])
          /\ after_request_funcs = Hooks([s \in Scopes |-> n])
          /\ teardown_request_funcs = Hooks([s \in Scopes |-> n])
          /\ teardown_appcontext_funcs = [i \in 1..n |-> i]
    /\ \E s \in setups :
          /\ config = s.config
          /\ error_handler_spec = s.handlers
    /\ log = <<>>
    /\ raised = None
    /\ op = [name |-> "wsgi_app", ctx |-> W]
    /\ cycle = [r \in ReqCtxs |-> NoCycle]
    /\ pc = "start"
    /\ rv = None
    /\ caught = None
    /\ error = None
    /\ from_error_handler = FALSE
    /\ response = None
    /\ pending = None
    /\ result = NoResult
    /\ g = EmptyG
    /\ lookup = NoLookup
    /\ InitExt
    /\ faults = 0
    /\ after_this = <<>>
    /\ view_calls = fs
    /\ view_raises = excs
    /\ entry = NoEntry

InitWsgi == InitWsgiWith(Setups, <<>>, ViewRaises)

NextWsgi ==
    \/ W_Push
    \/ W_Preprocess
    \/ W_Dispatch
    \/ W_UserException
    \/ W_Finalize
    \/ W_HandleException
    \/ W_Pop

SpecWsgi == InitWsgi /\ [][NextWsgi]_vars

\* wsgi_app for the applications with the default configuration, whose
\* views call after_this_request
DefaultSetups == {[config |-> DefaultConfig, handlers |-> h] : h \in HandlerSetups}
InitFinalize == InitWsgiWith(DefaultSetups, <<1>>, ViewRaises)
SpecFinalize == InitFinalize /\ [][NextWsgi]_vars

\* wsgi_app for the applications whose views raise HTTP exceptions: the base
\* class (its code is None), NotFound, and the routing redirect that the
\* URL match of a request leaves for dispatch_request to raise
HttpSetups ==
    DefaultSetups
      \cup {[config |-> DefaultConfig,
              handlers |-> {HandlerKey(GlobalScope, 404, "NotFound"),
                            HandlerKey(GlobalScope, 308, "RequestRedirect")}]}
HttpRaises == {"HTTPException", "NotFound", "KeyError", "GeneratorExit"}
InitHttp == InitWsgiWith(HttpSetups, <<>>, HttpRaises)
SpecHttp == InitHttp /\ [][NextWsgi]_vars

\* wsgi_app called with contexts already pushed by the caller: explicit
\* application contexts of the same or of another application, and the
\* request context of another application
PushBeforeCall ==
    /\ pc = "start"
    /\ \/ \E a \in ExplicitAppCtxs : AppPush(a)
       \/ ReqPush("r2", open_session["r2"])

NextBalance ==
    \/ PushBeforeCall
    \/ NextWsgi

InitBalance ==
    /\ InitWsgiWith({[config |-> DefaultConfig, handlers |-> {}]}, <<>>,
                    ViewRaises)
    /\ url_match[W] = Matched(<<"index">>)
    /\ open_session[W] \in {"session", "raise"}
    /\ teardown_appcontext_funcs # <<>>

SpecBalance == InitBalance /\ [][NextBalance]_vars

\* -------------------------------------------- error handler resolution
MaxHandlers == 3

HandlerClasses == {"ValueError", "Exception", "NotFound", "HTTPException"}
RaisedClasses == {"ValueError", "NotFound", "KeyError"}
BlueprintChains == {blueprints(s \o <<"view">>) : s \in Scopes}

\* @errorhandler(cls) on the application or on a blueprint
Register(name, cls) ==
    /\ Cardinality(error_handler_spec) < MaxHandlers
    /\ HandlerKey(name, code_of(cls), cls) \notin error_handler_spec
    /\ error_handler_spec' = register_error_handler(error_handler_spec, name, cls)
    /\ lookup' = NoLookup
    /\ UNCHANGED <<extvars, ctxvars, g, config, url_adapter, url_match, open_session,
                   url_value_preprocessors, before_request_funcs,
                   after_request_funcs, teardown_request_funcs,
                   teardown_appcontext_funcs, raised, op, cycle, wsgivars>>

\* one call _find_error_handler(e, blueprints)
Find(e, bps) ==
    /\ lookup' = [e |-> e, blueprints |-> bps,
                  handler |-> find_error_handler(e, bps)]
    /\ UNCHANGED <<extvars, ctxvars, g, cfgvars, raised, op, cycle, wsgivars>>

NextFind ==
    \/ \E name \in Scopes, cls \in HandlerClasses : Register(name, cls)
    \/ \E e \in RaisedClasses, bps \in BlueprintChains : Find(e, bps)

SpecFind == InitCtx /\ [][NextFind]_vars

\* --------------------------------------------- sessions.py: the sessions
\* everything but the session object
corevars == <<ctxvars, cfgvars, raised, op, cycle, wsgivars, lookup, g>>

Keys == {"k1", "k2"}
Vals == {"v1", "v2"}
Default == "default"

\* the items of a session: pairs (key, value), one per key
HasKey(d, k) == \E v \in Vals : <<k, v>> \in d
ValueOf(d, k) == CHOOSE v \in Vals : <<k, v>> \in d
Put(d, k, v) == {p \in d : p[1] # k} \cup {<<k, v>>}
Del(d, k) == {p \in d : p[1] # k}

\* how an operation ends: the object after it, what it returns or raises
Ret(o, r) == [obj |-> o, ret |-> r, exc |-> None]
Exc(o, e) == [obj |-> o, ret |-> None, exc |-> e]

\* on_update of SecureCookieSession.__init__, called by CallbackDict after
\* a change
on_update(o) == [o EXCEPT !.modified = TRUE, !.accessed = TRUE]
accessing(o) == [o EXCEPT !.accessed = TRUE]

ReadOps == {"get", "__contains__", "__iter__", "__len__"}
WriteOps == {"__setitem__", "__delitem__", "clear", "pop", "popitem",
             "update", "setdefault"}
SessionOps == ReadOps \cup WriteOps \cup {"__getitem__"}

\* the operations of SecureCookieSession (a CallbackDict)
SecureCookieSession_op(o, name, k, v) ==
    LET d == o.data
    IN  CASE name = "get" ->
               Ret(accessing(o), IF HasKey(d, k) THEN ValueOf(d, k) ELSE Default)
          [] name = "__getitem__" ->
               IF HasKey(d, k) THEN Ret(accessing(o), ValueOf(d, k))
               ELSE Exc(accessing(o), "KeyError")
          [] name = "__contains__" -> Ret(o, HasKey(d, k))
          [] name = "__iter__" -> Ret(o, {p[1] : p \in d})
          [] name = "__len__" -> Ret(o, Cardinality(d))
          [] name = "__setitem__" ->
               Ret(on_update([o EXCEPT !.data = Put(d, k, v)]), None)
          [] name = "__delitem__" ->
               IF HasKey(d, k)
               THEN Ret(on_update([o EXCEPT !.data = Del(d, k)]), None)
               ELSE Exc(o, "KeyError")
          [] name = "clear" -> Ret(on_update([o EXCEPT !.data = {}]), None)
          [] name = "pop" ->
               IF HasKey(d, k)
               THEN Ret(on_update([o EXCEPT !.data = Del(d, k)]), ValueOf(d, k))
               ELSE Exc(o, "KeyError")
          [] name = "popitem" ->
               IF d # {}
               THEN LET p == CHOOSE q \in d : TRUE
                    IN  Ret(on_update([o EXCEPT !.data = d \ {p}]), p)
               ELSE Exc(o, "KeyError")
          [] name = "update" ->
               Ret(on_update([o EXCEPT !.data = Put(d, k, v)]), None)
          [] name = "setdefault" ->
               IF HasKey(d, k) THEN Ret(accessing(o), ValueOf(d, k))
               ELSE Ret(on_update([o EXCEPT !.data = Put(d, k, v)]), v)

\* NullSession: `__setitem__ = __delitem__ = clear = pop = popitem = update =
\* setdefault = _fail`
fails_but_update(name) == name \in WriteOps \ {"update"}
fails(name) == name \in WriteOps

\* the operations of NullSession, a SecureCookieSession but for _fail
NullSession_op(o, name, k, v) ==
    IF fails(name) THEN Exc(o, "RuntimeError")
    ELSE SecureCookieSession_op(o, name, k, v)

\* make_null_session(app), session_class() of open_session for a request
\* without session cookie, session_class(data) for one with a valid cookie
NewSessions ==
    {[cls |-> "NullSession", data |-> {},
      accessed |-> FALSE, modified |-> FALSE],
     [cls |-> "SecureCookieSession", data |-> {},
      accessed |-> FALSE, modified |-> FALSE],
     [cls |-> "SecureCookieSession", data |-> {<<"k1", "v1">>},
      accessed |-> FALSE, modified |-> FALSE]}

MakeSession(o) ==
    /\ sobj = NoSession
    /\ sobj' = o
    /\ sret' = NoOp
    /\ UNCHANGED <<corevars, setupvars, copyvars, unitvars, respvars>>

SessionOp(name, k, v) ==
    /\ sobj # NoSession
    /\ LET r == IF sobj.cls = "NullSession"
                THEN NullSession_op(sobj, name, k, v)
                ELSE SecureCookieSession_op(sobj, name, k, v)
       IN  /\ sobj' = r.obj
           /\ sret' = [name |-> name, key |-> k, ret |-> r.ret, exc |-> r.exc]
    /\ UNCHANGED <<corevars, setupvars, copyvars, unitvars, respvars>>

NextSession ==
    \/ \E o \in NewSessions : MakeSession(o)
    \/ \E name \in SessionOps, k \in Keys, v \in Vals : SessionOp(name, k, v)

SpecSession == InitCtx /\ [][NextSession]_vars

\* ------------------------------------------- ctx.py: RequestContext.copy
\* no slot, no token and no caller holds the context any more: its name
\* is free for a new object
Unreferenced(c) ==
    /\ cv_request # c
    /\ req_tokens[c] = <<>>
    /\ \A r \in ReqCtxs : \A j \in 1..Len(req_tokens[r]) :
           req_tokens[r][j].old # c

\* `session=self.session` of copy; before 1.1 the copy opened the session
\* again
copied_session_unset(sess) == None
copied_session(sess) == sess

\* what open_session returns when it is called again for the request of a
\* context: an object of its own
reopened(sess) == IF sess = "session" THEN "session2" ELSE sess

\* c = o.copy(): __init__ with the app, the environ, the request and the
\* session of o
Copy(o, c) ==
    /\ o # c
    /\ copy_of[o] # c
    /\ Unreferenced(c)
    /\ request' = [request EXCEPT ![c] = request[o]]
    /\ copy_of' = [copy_of EXCEPT ![c] = o]
    /\ session' = [session EXCEPT ![c] = copied_session(session[o])]
    /\ req_tokens' = [req_tokens EXCEPT ![c] = <<>>]
    /\ url_adapter' = [url_adapter EXCEPT ![c] = url_adapter[o]]
    /\ url_match' = [url_match EXCEPT ![c] = url_match[o]]
    /\ open_session' = [open_session EXCEPT ![c] = reopened(open_session[o])]
    /\ url_rule' = [url_rule EXCEPT ![c] = url_rule[o]]
    /\ routing_exception' = [routing_exception EXCEPT ![c] = routing_exception[o]]
    /\ cycle' = [cycle EXCEPT ![c] = NoCycle]
    /\ log' = <<>>
    /\ raised' = None
    /\ op' = [name |-> "RequestContext.copy", ctx |-> o]
    /\ UNCHANGED <<cv_app, cv_request, app_tokens, ictx_app, config,
                   error_handler_spec, url_value_preprocessors,
                   before_request_funcs, after_request_funcs,
                   teardown_request_funcs, teardown_appcontext_funcs,
                   wsgivars, lookup, g, setupvars, sessvars, unitvars, respvars>>

NextCopy ==
    /\ ~Fatal
    /\ \/ \E o \in ReqCtxs, c \in ReqCtxs : Copy(o, c)
       \/ \E r \in ReqCtxs : ReqPush(r, open_session[r])
       \/ \E r \in ReqCtxs, args \in PopArgs, k \in 0..1, ka \in 0..1 :
             ReqPop(r, args, k, ka)

SpecCopy == InitCtx /\ [][NextCopy]_vars

\* ------------------------------- globals.py: the slots are ContextVars
\* the unit that makes and handles each context
Owner == [c \in ReqCtxs \cup ExplicitAppCtxs |->
            IF c \in {"r1", "a1"} THEN "u1" ELSE "u2"]

\* what _cv_app.get(None) and _cv_request.get(None) return in unit u
View(u) ==
    IF u = unit THEN [cv_app |-> cv_app, cv_request |-> cv_request]
    ELSE parked[u]

\* the value of a slot in the unit that resumes: a ContextVar has one
\* value per context, a module-level variable would have one for all
resumed_global(current, own) == current
resumed(current, own) == own

\* a unit starts: a task with a copy of the context of the unit that
\* starts it, a thread with an empty context
UnitStart(u, copy_context) ==
    /\ inherited[u] = Unstarted
    /\ LET slots == IF copy_context THEN View(unit) ELSE NoSlots
       IN  /\ parked' = [parked EXCEPT ![u] = slots]
           /\ inherited' = [inherited EXCEPT ![u] = slots]
    /\ op' = [name |-> "start", ctx |-> u]
    /\ log' = <<>>
    /\ UNCHANGED <<ctxvars_nolog, cfgvars, raised, cycle, wsgivars, lookup, g,
                   setupvars, sessvars, copyvars, respvars, unit>>

\* the scheduler lets u run
UnitSwitch(u) ==
    /\ u # unit
    /\ inherited[u] # Unstarted
    /\ unit' = u
    /\ parked' = [parked EXCEPT ![unit] = View(unit), ![u] = NoSlots]
    /\ cv_app' = resumed(cv_app, parked[u].cv_app)
    /\ cv_request' = resumed(cv_request, parked[u].cv_request)
    /\ op' = [name |-> "switch", ctx |-> u]
    /\ log' = <<>>
    /\ UNCHANGED <<app_tokens, req_tokens, ictx_app, session, url_rule,
                   routing_exception, cfgvars, raised, cycle, wsgivars,
                   lookup, g, setupvars, sessvars, copyvars, respvars, inherited>>

\* pushes not yet popped, of all units together
MaxPushes == 2

NextUnits ==
    /\ ~Fatal
    /\ \/ \E u \in Units, copy_context \in BOOLEAN : UnitStart(u, copy_context)
       \/ \E u \in Units : UnitSwitch(u)
       \/ \E a \in ExplicitAppCtxs :
             Owner[a] = unit /\ Outstanding < MaxPushes /\ AppPush(a)
       \/ \E a \in ExplicitAppCtxs, args \in PopArgs, ka \in 0..1 :
             Owner[a] = unit /\ AppPop(a, args, ka)
       \/ \E r \in ReqCtxs :
             /\ Owner[r] = unit /\ Outstanding < MaxPushes
             /\ ReqPush(r, open_session[r])
       \/ \E r \in ReqCtxs, args \in PopArgs, k \in 0..1, ka \in 0..1 :
             Owner[r] = unit /\ ReqPop(r, args, k, ka)

SpecUnits == InitCtx /\ [][NextUnits]_vars

\* --------------------------------------------- app.py: make_response
\* Python values by their type
NoneV == [t |-> "NoneType"]
StrV(x) == [t |-> "str", s |-> x]
IntV(x) == [t |-> "int", n |-> x]
DictV(pairs) == [t |-> "dict", items |-> pairs]
TupleV(seq) == [t |-> "tuple", elems |-> seq]
ResponseV(code, hdrs, data) ==
    [t |-> "Response", status_code |-> code, headers |-> hdrs, data |-> data]
TypeError == [t |-> "TypeError"]

\* headers as (name, value) pairs
Named(h, n) == \E p \in h : p[1] = n
ContentType(m) == <<"Content-Type", m>>

\* Headers.update: the values given replace those of the same name
headers_setdefault(h, new) == h \cup {q \in new : ~Named(h, q[1])}
headers_update(h, new) == {p \in h : ~Named(new, p[1])} \cup new

\* `rv.status = status` parses the code of a status line,
\* `rv.status_code = status` stores the number
status_code(status) ==
    IF status.t = "int" THEN status.n
    ELSE IF status.s = "202 ACCEPTED" THEN 202
    ELSE 0

\* response_class(rv, status=status, headers=headers)
response_class(body, status, headers) ==
    LET given == IF headers.t = "NoneType" THEN {} ELSE headers.items
    IN  ResponseV(IF status.t = "NoneType" THEN 200 ELSE status_code(status),
                  IF Named(given, "Content-Type") THEN given
                  ELSE given \cup {ContentType("text/html")},
                  body)

\* self.json.response(rv)
json_response(body) == ResponseV(200, {ContentType("application/json")}, body)

HeaderTypes == {"Headers", "dict", "tuple", "list"}
TextTypes == {"str", "bytes", "bytearray", "Iterator"}
JsonTypes_and_tuple == {"dict", "list", "tuple"}
JsonTypes == {"dict", "list"}

\* `if isinstance(rv, tuple)`: body, status and headers of the result
unpack(ret) ==
    IF ret.t # "tuple"
    THEN [ok |-> TRUE, body |-> ret, status |-> NoneV, headers |-> NoneV]
    ELSE IF Len(ret.elems) = 3
    THEN [ok |-> TRUE, body |-> ret.elems[1], status |-> ret.elems[2], headers |-> ret.elems[3]]
    ELSE IF Len(ret.elems) = 2
    THEN IF ret.elems[2].t \in HeaderTypes
         THEN [ok |-> TRUE, body |-> ret.elems[1], status |-> NoneV, headers |-> ret.elems[2]]
         ELSE [ok |-> TRUE, body |-> ret.elems[1], status |-> ret.elems[2], headers |-> NoneV]
    ELSE [ok |-> FALSE, body |-> NoneV, status |-> NoneV, headers |-> NoneV]

\* Flask.make_response(rv)
make_response(ret) ==
    LET u == unpack(ret)
        direct == u.body.t \in TextTypes
        r == CASE u.body.t = "Response" -> u.body
               [] direct -> response_class(u.body, u.status, u.headers)
               [] u.body.t \in JsonTypes -> json_response(u.body)
               [] OTHER -> TypeError
        status == IF direct THEN NoneV ELSE u.status
        headers == IF direct THEN NoneV ELSE u.headers
        r1 == IF status.t # "NoneType"
              THEN [r EXCEPT !.status_code = status_code(status)]
              ELSE r
    IN  IF ~u.ok \/ u.body.t = "NoneType" \/ r.t = "TypeError" THEN TypeError
        ELSE IF headers.t # "NoneType" /\ headers.items # {}
        THEN [r1 EXCEPT !.headers = headers_update(@, headers.items)]
        ELSE r1

\* what a view function may return
Bodies ==
    {StrV("x"), DictV({<<"k", "v">>}),
     ResponseV(200, {ContentType("text/html")}, StrV("y")),
     ResponseV(404, {ContentType("text/plain"), <<"A", "1">>}, StrV("z")),
     NoneV, IntV(7), TupleV(<<StrV("x"), IntV(201)>>)}
Statuses == {IntV(201), StrV("202 ACCEPTED"), NoneV}
HeaderValues ==
    {DictV({}), DictV({<<"A", "2">>}), DictV({<<"B", "3">>}),
     DictV({<<"A", "2">>, ContentType("text/csv")})}
ViewResults ==
    Bodies
      \cup {TupleV(<<b>>) : b \in Bodies}
      \cup {TupleV(<<b, x>>) : b \in Bodies, x \in Statuses \cup HeaderValues}
      \cup {TupleV(<<b, s, h>>) : b \in Bodies, s \in Statuses, h \in HeaderValues}
      \cup {TupleV(<<b, s, h, h>>) : b \in Bodies, s \in Statuses, h \in HeaderValues}

MakeResponse(v) ==
    /\ view_rv' = v
    /\ made' = make_response(v)
    /\ UNCHANGED <<corevars, setupvars, sessvars, copyvars, unitvars>>

NextResponse == \E v \in ViewResults : MakeResponse(v)

SpecResponse == InitCtx /\ [][NextResponse]_vars

\* ---------------------------------------------- setup methods (sansio)
\* an application with the default configuration and no error handler
PlainSetups == {[config |-> DefaultConfig, handlers |-> {}]}
\* the recursion limit of the interpreter, in calls of Blueprint.register
MaxRecursion == 4
\* the callbacks and rules added by setup methods in one run
MaxSetup == 1

Endpoints == {"e1"}

\* App._check_setup_finished, called by the wrapper of setupmethod before
\* the method itself: `if self._got_first_request: raise AssertionError`
setup_finished_never(flag) == FALSE
setup_finished(flag) == flag

\* setup methods are called between requests, by the code that sets up the
\* application, while no registration is in progress
SetupTime == pc \in {"idle", "start", "done"} /\ registering = <<>>

\* every call is a new call, also when it leaves the application as it was
Call(name) ==
    [name |-> name, ctx |-> None,
     call |-> IF "call" \in DOMAIN op THEN ~op.call ELSE TRUE]

\* App.teardown_appcontext(f)
TeardownAppcontext ==
    /\ SetupTime
    /\ IF setup_finished(got_first_request)
       THEN /\ raised' = "AssertionError"
            /\ UNCHANGED teardown_appcontext_funcs
       ELSE /\ Len(teardown_appcontext_funcs) < MaxSetup
            /\ teardown_appcontext_funcs' =
                   Append(teardown_appcontext_funcs,
                          Len(teardown_appcontext_funcs) + 1)
            /\ raised' = None
    /\ op' = Call("teardown_appcontext")
    /\ UNCHANGED <<ctxvars, config, error_handler_spec, url_adapter, url_match,
                   open_session, url_value_preprocessors, before_request_funcs,
                   after_request_funcs, teardown_request_funcs, cycle,
                   wsgivars, lookup, g, extvars>>

\* App.add_url_rule(rule, endpoint, view_func), for an endpoint that has no
\* other view function
AddUrlRule(endpoint) ==
    /\ SetupTime
    /\ IF setup_finished(got_first_request)
       THEN /\ raised' = "AssertionError"
            /\ UNCHANGED url_map
       ELSE /\ endpoint \notin url_map
            /\ url_map' = url_map \cup {endpoint}
            /\ raised' = None
    /\ op' = Call("add_url_rule")
    /\ UNCHANGED <<ctxvars, cfgvars, cycle, wsgivars, lookup, g, sessvars,
                   copyvars, unitvars, respvars, got_first_request,
                   app_blueprints, nested, got_registered_once, registering>>

\* the start of Blueprint.register(app, options) for the blueprint bp under
\* the name prefix: the name check, `app.blueprints[name] = self`,
\* `self._got_registered_once = True`; the loop over self._blueprints is
\* still to run.  A call beyond the recursion limit raises RecursionError,
\* and what a call raises ends all the calls in progress.
register(bp, prefix, calls) ==
    LET name == prefix \o <<bp>>
    IN  IF Len(calls) >= MaxRecursion
        THEN /\ raised' = "RecursionError"
             /\ registering' = <<>>
             /\ UNCHANGED <<app_blueprints, got_registered_once>>
        ELSE IF name \in app_blueprints
        THEN /\ raised' = "ValueError"
             /\ registering' = <<>>
             /\ UNCHANGED <<app_blueprints, got_registered_once>>
        ELSE /\ app_blueprints' = app_blueprints \cup {name}
             /\ got_registered_once' = got_registered_once \cup {bp}
             /\ registering' =
                    Append(calls, [bp |-> bp, name |-> name, next |-> 1])
             /\ raised' = None

\* App.register_blueprint(blueprint): `blueprint.register(self, options)`
AppRegisterBlueprint(bp) ==
    /\ SetupTime
    /\ IF setup_finished(got_first_request)
       THEN /\ raised' = "AssertionError"
            /\ UNCHANGED <<app_blueprints, got_registered_once, registering>>
       ELSE register(bp, <<>>, <<>>)
    /\ op' = Call("register_blueprint")
    /\ UNCHANGED <<ctxvars, cfgvars, cycle, wsgivars, lookup, g, sessvars,
                   copyvars, unitvars, respvars, got_first_request, url_map,
                   nested>>

\* Blueprint.register, one turn of `for blueprint, bp_options in
\* self._blueprints: ... blueprint.register(app, bp_options)` of the
\* innermost call, or its return when the loop is over
RegisterStep ==
    /\ registering # <<>>
    /\ LET top == Last(registering)
       IN  IF top.next > Len(nested[top.bp])
           THEN /\ registering' = Front(registering)
                /\ UNCHANGED <<app_blueprints, got_registered_once, raised>>
           ELSE register(nested[top.bp][top.next], top.name,
                         [registering EXCEPT ![Len(registering)].next = @ + 1])
    /\ UNCHANGED <<ctxvars, cfgvars, op, cycle, wsgivars, lookup, g, sessvars,
                   copyvars, unitvars, respvars, got_first_request, url_map,
                   nested>>

\* Blueprint.register_blueprint(blueprint) of the blueprint parent
BlueprintRegisterBlueprint(parent, child) ==
    /\ SetupTime
    /\ IF parent \in got_registered_once
       THEN raised' = "AssertionError" /\ UNCHANGED nested
       ELSE IF child = parent
       THEN raised' = "ValueError" /\ UNCHANGED nested
       ELSE /\ child \notin Range(nested[parent])
            /\ nested' = [nested EXCEPT ![parent] = Append(@, child)]
            /\ raised' = None
    /\ op' = Call("Blueprint.register_blueprint")
    /\ UNCHANGED <<ctxvars, cfgvars, cycle, wsgivars, lookup, g, sessvars,
                   copyvars, unitvars, respvars, got_first_request, url_map,
                   app_blueprints, got_registered_once, registering>>

\* the `finally` of Flask.run, when the development server has stopped:
\* `self._got_first_request = False`
Run_finally ==
    /\ pc = "done"
    /\ registering = <<>>
    /\ got_first_request' = FALSE
    /\ op' = Call("run")
    /\ UNCHANGED <<ctxvars, cfgvars, raised, cycle, wsgivars, lookup, g,
                   sessvars, copyvars, unitvars, respvars, url_map,
                   app_blueprints, nested, got_registered_once, registering>>

\* an application is set up, serves a request under the development server,
\* and is set up further
NextSetup ==
    \/ TeardownAppcontext
    \/ \E e \in Endpoints : AddUrlRule(e)
    \/ \E bp \in Blueprints : AppRegisterBlueprint(bp)
    \/ RegisterStep
    \/ SetupTime /\ W_Push
    \/ W_Preprocess
    \/ W_Dispatch
    \/ W_UserException
    \/ W_Finalize
    \/ W_HandleException
    \/ W_Pop
    \/ Run_finally

InitSetup ==
    /\ InitWsgiWith(PlainSetups, <<>>, {"KeyError"})
    /\ url_match[W] = Matched(<<"index">>)
    /\ open_session[W] = "session"
    /\ teardown_appcontext_funcs = <<>>

SpecSetup == InitSetup /\ [][NextSetup]_vars

\* blueprints are nested in each other and registered on an application
NextRegister ==
    \/ \E p \in Blueprints, c \in Blueprints : BlueprintRegisterBlueprint(p, c)
    \/ \E bp \in Blueprints : AppRegisterBlueprint(bp)
    \/ RegisterStep

SpecRegister == InitCtx /\ [][NextRegister]_vars

\* ------------------------------- after_this_request and process_response
\* A response is written as the sequence of the callbacks that returned it,
\* each from the response it was given: `response = func(response)`.
MaxCallbacks == 2

returned(func, resp) == Append(resp, func)
ResponseOf(trace) == [t |-> "Response", by |-> trace]

\* the response after the loops of process_response over `order`
RECURSIVE response_after(_, _)
response_after(order, resp) ==
    IF order = <<>> THEN resp
    ELSE response_after(Tail(order), returned(Head(order), resp))

\* after_this_request(f), called by any code: with no request context in
\* the request slot it raises RuntimeError before the append
AfterThisRequest(f) ==
    /\ Len(after_this) < MaxCallbacks
    /\ f \notin Range(after_this)
    /\ IF cv_request = None
       THEN /\ raised' = "RuntimeError"
            /\ UNCHANGED after_this
       ELSE /\ cv_request = W
            /\ after_this' = after_this_request(after_this, <<f>>)
            /\ raised' = None
    /\ log' = <<>>
    /\ op' = [name |-> "after_this_request", ctx |-> cv_request]
    /\ UNCHANGED <<ctxvars_nolog, cfgvars, cycle, extvars, lookup, g, pc, rv,
                   caught, error, from_error_handler, response, pending,
                   result, faults, view_calls, view_raises, entry>>

\* process_response(response) for a response no callback has seen yet, in
\* a request whose callbacks and save_session do not raise
ProcessResponse ==
    /\ cv_request = W
    /\ session[W] # None
    /\ LET A == ResponseOrder(CurrentBlueprints(CtxState))
           calls == [i \in 1..Len(A) |->
                       Ev(A[i][3], A[i][1], A[i][2],
                          response_after(SubSeq(A, 1, i - 1), <<>>))]
           final == response_after(A, <<>>)
       IN  /\ log' = calls \o (IF saves_session(session[W])
                               THEN <<Sig("save_session", final)>>
                               ELSE <<>>)
           /\ made' = ResponseOf(final)
    /\ raised' = None
    /\ op' = [name |-> "process_response", ctx |-> W]
    /\ UNCHANGED <<ctxvars_nolog, cfgvars, cycle, setupvars,
                   sessvars, copyvars, unitvars,
                   view_rv, lookup, g, wsgivars>>

NextAfter ==
    \/ ReqPush(W, open_session[W])
    \/ ReqPop(W, [exc |-> Sentinel, ambient |-> None], 0, 0)
    \/ \E f \in 1..(MaxCallbacks + 1) : AfterThisRequest(f)
    \/ ProcessResponse

SpecAfter == InitWsgiWith(PlainSetups, <<>>, {}) /\ [][NextAfter]_vars

\* ------------------------------------------------------------------ C1
HasEvent(e, arg) == \E i \in 1..Len(log) : log[i].ev = e /\ log[i].arg = arg
NoCallTwice(e) ==
    LET calls == SelectSeq(log, LAMBDA x : x.ev = e)
    IN  Cardinality({<<calls[i].scope, calls[i].f>> : i \in 1..Len(calls)})
            = Len(calls)

\* C1: for nested pushes of one RequestContext followed by as many pops, the
\* request-teardown batch runs exactly once, in the pop that takes the last
\* token: while a push of r is outstanding no batch of r has run, a pop
\* that leaves r pushed calls no teardown callback, and once the token list
\* is empty again the batch has run exactly once, calling no callback twice.
C1_TeardownOnceOnOutermostPop ==
    /\ \A r \in ReqCtxs :
          /\ req_tokens[r] # <<>> => cycle[r].runs = 0
          /\ (req_tokens[r] = <<>> /\ cycle[r].runs >= 0) => cycle[r].runs = 1
    /\ (op.name = "RequestContext.pop" /\ req_tokens[op.ctx] # <<>>)
          => Count(log, "do_teardown_request") + Count(log, "teardown_request") = 0
    /\ op.name = "RequestContext.push" => Count(log, "teardown_request") = 0
    /\ NoCallTwice("teardown_request")

\* r1 was pushed MaxDepth times and popped as often, and the last pop called
\* the teardown callbacks
C1_Witness ==
    /\ op = [name |-> "RequestContext.pop", ctx |-> "r1"]
    /\ req_tokens["r1"] = <<>>
    /\ cycle["r1"] = [runs |-> 1, depth |-> MaxDepth]
    /\ raised = None
    /\ Count(log, "teardown_request") > 0

\* ------------------------------------------------------------------ C3
ResetOf(c, slot) == \E i \in 1..Len(log') : log'[i] = Sig(slot, c)

\* C3: every pop that unbinds a context leaves the slot holding the value it
\* held immediately before the push this pop undoes (the value the token of
\* that push recorded), "None" (empty) when nothing was pushed before; this
\* holds for the request slot, for the app slot, and for the app context a
\* RequestContext pop takes along.
C3_PopRestoresSlot ==
    [][/\ \A a \in AppCtxs :
            ResetOf(a, "cv_app.reset") => cv_app' = Last(app_tokens[a])
       /\ \A r \in ReqCtxs :
            ResetOf(r, "cv_request.reset")
                => cv_request' = Last(req_tokens[r]).old]_vars

\* a2 was popped off a1, and a1 is current again
C3_Witness ==
    /\ op = [name |-> "AppContext.pop", ctx |-> "a2"]
    /\ raised = None
    /\ cv_app = "a1"
    /\ app_tokens["a1"] # <<>>

\* ------------------------------------------------- reading the log
\* the callbacks (scope, function) of the events e among log[lo..hi]
CallsOf(e, lo, hi) ==
    LET evs == SelectSeq(SubSeq(log, lo, hi), LAMBDA x : x.ev = e)
    IN  [i \in 1..Len(evs) |-> <<evs[i].scope, evs[i].f>>]

\* positions of the calls of make_response
MRIdx ==
    SelectSeq([i \in 1..Len(log) |-> i],
              LAMBDA i : log[i].ev = "make_response")

\* the end of the finalization that the m-th make_response starts
PassEnd(m) == IF m < Len(MRIdx) THEN MRIdx[m + 1] ELSE Len(log)

AfterPass(m) == CallsOf("after_request", MRIdx[m], PassEnd(m))
BeforeRun == CallsOf("before_request", 1, Len(log))
UrlRun == CallsOf("url_value_preprocessor", 1, Len(log))
TeardownRun == CallsOf("teardown_request", 1, Len(log))

\* an after-request hook, save_session or the request_finished signal
\* raised in the m-th finalization
PassRaised(m) ==
    \E i \in MRIdx[m]..PassEnd(m) :
        /\ log[i].ev \in {"after_this_request", "after_request", "save_session",
                          "request_finished"}
        /\ log[i].arg = "raise"

\* the scopes that apply to the request, and the callbacks a registry holds
\* for them
RequestScopes == {GlobalScope} \cup Range(blueprints(url_rule[W]))
Registered(funcs) ==
    {<<sc, f>> : sc \in RequestScopes, f \in 1..MaxHooks} \cap
    UNION {Range(Tagged(funcs, sc)) : sc \in RequestScopes}

Done == pc = "done"

\* ------------------------------------------------------------------ C2
\* C2: every call of wsgi_app runs the request-teardown batch exactly once,
\* whatever way it ends (a response, a failing open_session in push, an
\* exception of a hook, of the view or of an error handler, a BaseException
\* passing through): the batch does not run before the exit, it has run
\* once at the exit, no callback is called twice, and unless a teardown
\* callback itself raised every applicable callback was called.
C2_TeardownOncePerCall ==
    /\ ~Done => Count(log, "do_teardown_request") = 0
    /\ Done => Count(log, "do_teardown_request") = 1
    /\ NoCallTwice("teardown_request")
    /\ (Done /\ Registered(teardown_request_funcs) # {})
          => Count(log, "teardown_request") >= 1
    /\ (Done /\ raised # "TeardownError")
          => Range(TeardownRun) = Registered(teardown_request_funcs)

\* the view was cancelled (a BaseException that is not an Exception), and
\* the callbacks of the three scopes ran on the way out
C2_Witness ==
    /\ Done
    /\ result = [kind |-> "raised", val |-> "GeneratorExit"]
    /\ Len(TeardownRun) = 3 * MaxHooks
    /\ HasEvent("do_teardown_request", "GeneratorExit")

\* ------------------------------------------------------------------ C4
\* the view raised a KeyError, no error handler is registered and
\* exceptions are not propagated
C4_Case ==
    /\ Done
    /\ HasEvent("view", "KeyError")
    /\ error_handler_spec = {}
    /\ ~propagate_exceptions

\* C4 as the specification states it: in that case wsgi_app yields a
\* response with status 500 and every request-teardown callback is called
\* exactly once with the original exception.
C4_Status500AndEveryTeardownCalled ==
    C4_Case =>
        /\ result.kind = "returned"
        /\ status_of(result.val) = 500
        /\ \A c \in Registered(teardown_request_funcs) :
              Cardinality({i \in 1..Len(log) :
                  log[i] = Ev("teardown_request", c[1], c[2], "KeyError")}) = 1

\* ------------------------------------------------------------------ C5
\* C5 as the specification states it: exactly one value is passed to
\* make_response in a request.
C5_ExactlyOneCoercion ==
    Done => Cardinality({log[i].arg : i \in Range(MRIdx)}) = 1

\* C5, amended: make_response is called at most twice in a request; a
\* second call happens only after handle_exception took over from a first
\* finalization that raised, and its argument is the generic 500 or what
\* the handler found for it returned; a response that wsgi_app returns was
\* made from the value of the last call; no call at all happens only when
\* wsgi_app raises.
C5_AtMostTwoCoercions ==
    /\ Len(MRIdx) <= 2
    /\ Len(MRIdx) = 2 =>
          /\ \E j \in MRIdx[1]..MRIdx[2] : log[j].ev = "got_request_exception"
          /\ \/ log[MRIdx[2]].arg = "InternalServerError"
             \/ \E j \in MRIdx[1]..MRIdx[2] :
                   /\ log[j].ev = "error_handler"
                   /\ log[j].arg = "InternalServerError"
    /\ (Done /\ result.kind = "returned") =>
          /\ MRIdx # <<>>
          /\ result.val = log[Last(MRIdx)].arg
    /\ (Done /\ MRIdx = <<>>) => result.kind = "raised"

\* the view returned None: make_response(None) raised, and the generic 500
\* was coerced and returned
C5_Witness ==
    /\ Done
    /\ Len(MRIdx) = 2
    /\ log[MRIdx[1]].arg = None
    /\ result = [kind |-> "returned", val |-> "InternalServerError"]

\* ------------------------------------------------------------------ C6
\* C6 as the specification states it: every registered request-teardown
\* callback of the applicable scopes is called in the pop, whichever of
\* them raise.
C6_EveryTeardownAttempted ==
    Done => Registered(teardown_request_funcs) \subseteq Range(TeardownRun)

\* ------------------------------------------------------------------ C7
\* the calls X (scope, function) come in the order `before`
Ordered(X, before(_, _)) ==
    \A i, j \in 1..Len(X) : i < j => before(X[i], X[j])

\* x runs before y when the blueprints come innermost first and the global
\* scope last / the global scope first and the blueprints outermost first
InnerFirst(x, y) ==
    \/ Len(x[1]) > Len(y[1])
    \/ x[1] = y[1] /\ x[2] < y[2]
OuterFirst(x, y) ==
    \/ Len(x[1]) < Len(y[1])
    \/ x[1] = y[1] /\ x[2] < y[2]

\* position of the first / the last event e of the log (0: none)
FirstOf(e) ==
    IF Count(log, e) = 0 THEN 0
    ELSE CHOOSE i \in 1..Len(log) :
            log[i].ev = e /\ \A j \in 1..(i - 1) : log[j].ev # e
LastOf(e) ==
    IF Count(log, e) = 0 THEN 0
    ELSE CHOOSE i \in 1..Len(log) :
            log[i].ev = e /\ \A j \in (i + 1)..Len(log) : log[j].ev # e

\* preprocess_request went through all its callbacks
Dispatched ==
    Count(log, "view") + Count(log, "raise_routing_exception") > 0

\* C7 as the specification states it: URL-value preprocessors and
\* before-request hooks visit the blueprints innermost first, then the
\* global scope, each list in append order.
C7_InnermostFirstThenGlobal ==
    /\ Ordered(UrlRun, InnerFirst)
    /\ Ordered(BeforeRun, InnerFirst)

\* C7, amended: URL-value preprocessors and before-request hooks visit the
\* global scope first, then the blueprints from the outermost to the
\* innermost, each list in append order; all URL-value preprocessors run
\* before the first before-request hook, and a pass that reaches dispatch
\* has called every callback of these scopes.
C7_GlobalFirstThenOutermost ==
    /\ Ordered(UrlRun, OuterFirst)
    /\ Ordered(BeforeRun, OuterFirst)
    /\ BeforeRun # <<>> => LastOf("url_value_preprocessor") < FirstOf("before_request")
    /\ Dispatched =>
          /\ Range(UrlRun) = Registered(url_value_preprocessors)
          /\ Range(BeforeRun) = Registered(before_request_funcs)

\* a request through the blueprints p and p.c reached its view after
\* MaxHooks hooks of each of the three scopes
C7_Witness ==
    /\ pc = "dispatch_request"
    /\ url_rule[W] = <<"p", "c", "view">>
    /\ Len(UrlRun) = 3 * MaxHooks
    /\ Len(BeforeRun) = 3 * MaxHooks
    /\ BeforeRun[1][1] = GlobalScope
    /\ Last(BeforeRun)[1] = <<"p", "c">>

\* ------------------------------------------------------------------ C8
\* callbacks that ran in X in one order ran in Y in the opposite order
ReverseOrdered(X, Y) ==
    LET both == Range(X) \cap Range(Y)
    IN  SelectSeq(Y, LAMBDA c : c \in both)
            = Reversed(SelectSeq(X, LAMBDA c : c \in both))

MirrorOf(X, Y) ==
    /\ ReverseOrdered(X, Y)
    /\ Range(X) = Range(Y) => Y = Reversed(X)

\* C8: with the same callbacks registered in the same order and scopes as
\* before-request hooks, after-request hooks and teardown callbacks, the
\* after-request hooks of a finalization and the teardown callbacks run in
\* the reverse of the order of the before-request hooks: any two callbacks
\* run in opposite orders, and when the same callbacks ran the one sequence
\* is the reverse of the other.
C8_AfterAndTeardownMirrorBefore ==
    (/\ after_request_funcs = before_request_funcs
     /\ teardown_request_funcs = before_request_funcs)
    => /\ \A m \in 1..Len(MRIdx) :
             /\ NoCallTwice("before_request")
             /\ Cardinality(Range(AfterPass(m))) = Len(AfterPass(m))
             /\ MirrorOf(BeforeRun, AfterPass(m))
       /\ NoCallTwice("teardown_request")
       /\ MirrorOf(BeforeRun, TeardownRun)

\* a request through p and p.c ran MaxHooks hooks of each scope before,
\* after and at teardown
C8_Witness ==
    /\ Done
    /\ url_rule[W] = <<"p", "c", "view">>
    /\ MaxHooks >= 2
    /\ Len(BeforeRun) = 3 * MaxHooks
    /\ Len(MRIdx) = 1
    /\ AfterPass(1) = Reversed(BeforeRun)
    /\ TeardownRun = Reversed(BeforeRun)
    /\ BeforeRun[1] = <<GlobalScope, 1>>
    /\ BeforeRun[2] = <<GlobalScope, 2>>

\* ------------------------------------------------------------------ C9
\* positions of the before-request hooks that returned a value
ShortCircuits ==
    {i \in 1..Len(log) : log[i].ev = "before_request" /\ log[i].arg = "value"}

\* C9: after a before-request hook returned a value no other before-request
\* hook and no view is called (nor is the routing exception raised), the
\* value is what finalize_request is given and the first value passed to
\* make_response, and that finalization calls every applicable
\* after-request hook and, for a session that is not a null session,
\* save_session, unless one of these raises.
C9_ShortCircuit ==
    \A i \in ShortCircuits :
        /\ \A j \in (i + 1)..Len(log) :
              log[j].ev \notin {"before_request", "view",
                                "raise_routing_exception"}
        /\ pc \notin {"full_dispatch_request", "dispatch_request",
                      "handle_user_exception"}
        /\ (pc = "finalize_request" /\ MRIdx = <<>>) => rv = "before_rv"
        /\ MRIdx # <<>> =>
              /\ MRIdx[1] = i + 1
              /\ log[MRIdx[1]].arg = "before_rv"
              /\ ~PassRaised(1) =>
                    /\ Range(AfterPass(1)) = Registered(after_request_funcs)
                    /\ session[W] # "null" =>
                          \E j \in MRIdx[1]..PassEnd(1) :
                              log[j].ev = "save_session"
        /\ pc # "finalize_request" => MRIdx # <<>>

\* the first before-request hook returned a value; the response made from
\* it went through the after-request hooks and save_session
C9_Witness ==
    /\ Done
    /\ ShortCircuits # {}
    /\ Len(BeforeRun) = 1
    /\ MaxHooks >= 2
    /\ Len(AfterPass(1)) = 3 * MaxHooks
    /\ Count(log, "save_session") = 1
    /\ result = [kind |-> "returned", val |-> "before_rv"]

\* ----------------------------------------------------------------- C10
\* RequestContext.push raised: wsgi_app left it without reaching
\* full_dispatch_request
PushRaised ==
    /\ pc \notin {"start", "full_dispatch_request"}
    /\ Count(log, "request_started") = 0

\* preprocess_request returned None
PreprocessPassed ==
    /\ Count(log, "request_started") = 1
    /\ pc \notin {"full_dispatch_request", "dispatch_request"}
    /\ \A i \in 1..Len(log) :
          log[i].ev \in {"url_value_preprocessor", "before_request"}
              => log[i].arg = None

\* C10: push raises exactly when open_session raises, never for a routing
\* failure; the routing exception is kept on the request and raised by
\* dispatch_request exactly when preprocess_request returned None, so not
\* after a before-request hook returned a value; the URL-value preprocessors
\* and before-request hooks of the global scope run for a request whose
\* routing failed.
C10_RoutingFailureDeferred ==
    /\ pc # "start" => (PushRaised <=> open_session[W] = "raise")
    /\ PushRaised => caught = "SessionError"
    /\ (pc # "start" /\ ~PushRaised /\ ~url_match[W].ok) =>
          /\ routing_exception[W] = url_match[W].exc
          /\ Count(log, "view") = 0
          /\ PreprocessPassed <=> Count(log, "raise_routing_exception") = 1
          /\ ShortCircuits # {} => Count(log, "raise_routing_exception") = 0
          /\ pc # "full_dispatch_request" =>
                (Registered(url_value_preprocessors) # {} => UrlRun # <<>>)
          /\ PreprocessPassed =>
                /\ Range(UrlRun) = Registered(url_value_preprocessors)
                /\ Range(BeforeRun) = Registered(before_request_funcs)
    /\ \A i \in 1..Len(log) :
          log[i].ev = "raise_routing_exception"
              => log[i].arg = routing_exception[W]

\* no URL matched: push stored NotFound, the hooks of the global scope ran,
\* dispatch_request raised it and it became the 404 response
C10_Witness ==
    /\ Done
    /\ routing_exception[W] = "NotFound"
    /\ Len(BeforeRun) = MaxHooks
    /\ Len(UrlRun) = MaxHooks
    /\ HasEvent("raise_routing_exception", "NotFound")
    /\ result = [kind |-> "returned", val |-> "NotFound"]

\* ----------------------------------------------------------------- C11
\* the step is the call of `name` on the context c
StepOf(name, c) == op' = [name |-> name, ctx |-> c] /\ vars' # vars

\* the app-teardown batch of the step was left by a callback that raised
AppBatchAborted ==
    Count(log', "do_teardown_appcontext") > Count(log', "appcontext_tearing_down")

\* c holds a token while its slot holds another context
Mismatched(slot, tokens, c) == slot \notin {c, None} /\ tokens[c] # <<>>

\* C11 as the specification states it: pop of a context that is not the
\* current value of its slot raises AssertionError.
C11_MismatchedPopRaisesAssertionError ==
    [][/\ \A a \in ExplicitAppCtxs :
            (StepOf("AppContext.pop", a) /\ Mismatched(cv_app, app_tokens, a))
                => raised' = "AssertionError"
       /\ \A r \in ReqCtxs :
            (StepOf("RequestContext.pop", r)
                /\ Mismatched(cv_request, req_tokens, r))
                => raised' = "AssertionError"]_vars

\* C11, amended: pop completes without an exception only when the context
\* popped is the current value of its slot.  Pop of a context that holds a
\* token while the slot holds another context always raises: the
\* AssertionError, unless an app-teardown callback run by this pop raised,
\* whose exception then leaves pop instead (RequestContext.pop asserts
\* inside its finally block, so a raising request-teardown callback does not
\* hide its AssertionError).  Pop with an empty slot raises
\* LookupError, pop of a context with no token under a non-empty slot raises
\* IndexError.
C11_PopOfNonCurrentFails ==
    [][/\ \A a \in ExplicitAppCtxs : StepOf("AppContext.pop", a) =>
            /\ raised' = None => cv_app = a
            /\ Mismatched(cv_app, app_tokens, a) =>
                  raised' = IF AppBatchAborted THEN "TeardownError"
                            ELSE "AssertionError"
            /\ cv_app = None => raised' = "LookupError"
            /\ (cv_app # None /\ app_tokens[a] = <<>>)
                  => raised' = "IndexError"
       /\ \A r \in ReqCtxs : StepOf("RequestContext.pop", r) =>
            /\ raised' = None => cv_request = r
            /\ Mismatched(cv_request, req_tokens, r) =>
                  raised' = IF AppBatchAborted THEN "TeardownError"
                            ELSE "AssertionError"
            /\ cv_request = None => raised' = "LookupError"
            /\ (cv_request # None /\ req_tokens[r] = <<>>)
                  => raised' = "IndexError"]_vars

\* a1 was popped while a2, pushed after it, was current
C11_Witness ==
    /\ op = [name |-> "AppContext.pop", ctx |-> "a1"]
    /\ raised = "AssertionError"
    /\ app_tokens["a2"] # <<>>
    /\ HasEvent("cv_app.reset", "a1")

\* ----------------------------------------------------------------- C12
\* positions of the events named in E, and "every E1 event comes before
\* every E2 event"
PosOf(evs, E) == {i \in 1..Len(evs) : evs[i].ev \in E}
Precede(evs, E1, E2) ==
    \A i \in PosOf(evs, E1), j \in PosOf(evs, E2) : i < j

AppPopEvents ==
    {"do_teardown_appcontext", "teardown_appcontext",
     "appcontext_tearing_down", "cv_app.reset", "appcontext_popped"}

\* C12 as the specification states it: RequestContext.pop runs the
\* request-teardown callbacks, then resets the request slot, then asserts
\* that the popped context is self, and only then pops the AppContext it
\* owns; so a pop whose assertion fails has not touched that AppContext.
C12_AppContextPoppedAfterAssertion ==
    [][\A r \in ReqCtxs : StepOf("RequestContext.pop", r) =>
          /\ Precede(log', {"do_teardown_request", "teardown_request"},
                     {"cv_request.reset"})
          /\ Precede(log', {"cv_request.reset"}, AppPopEvents)
          /\ (cv_request # None /\ req_tokens[r] # <<>>
                 /\ popped_wrong(cv_request, r))
                => PosOf(log', AppPopEvents) = {}]_vars

\* ----------------------------------------------------------------- C13
\* C13: RequestContext.push pushes a new AppContext of its application
\* exactly when the app slot is empty or holds a context of another
\* application, and keeps it in the token of that push; otherwise it pushes
\* none and leaves the app slot alone.  The pop that takes a token pops the
\* AppContext kept in it and no other; when the token holds none, the pop
\* leaves the app slot as it is and runs no app-teardown callback.
C13_OwnedAppContext ==
    [][\A r \in ReqCtxs :
          /\ StepOf("RequestContext.push", r) =>
                LET tok == Last(req_tokens'[r])
                IN  IF cv_app = None \/ AppOf(CtxState, cv_app) # ReqApp[r]
                    THEN /\ Count(log', "appcontext_pushed") = 1
                         /\ cv_app' \in ImplicitAppCtxs
                         /\ ictx_app[cv_app'] = None
                         /\ ictx_app'[cv_app'] = ReqApp[r]
                         /\ app_tokens'[cv_app'] = <<cv_app>>
                         /\ tok.app_ctx = cv_app'
                    ELSE /\ Count(log', "appcontext_pushed") = 0
                         /\ cv_app' = cv_app
                         /\ app_tokens' = app_tokens
                         /\ tok.app_ctx = None
          /\ (StepOf("RequestContext.pop", r) /\ cv_request # None
                 /\ req_tokens[r] # <<>>) =>
                LET tok == Last(req_tokens[r])
                IN  IF tok.app_ctx # None
                    THEN /\ Cardinality(PosOf(log', {"cv_app.reset"})) = 1
                         /\ \A i \in PosOf(log', {"cv_app.reset"}) :
                               log'[i].arg = tok.app_ctx
                    ELSE /\ PosOf(log', AppPopEvents) = {}
                         /\ cv_app' = cv_app
                         /\ app_tokens' = app_tokens]_vars

\* r1 was pushed under the AppContext a1 of its own application and popped
\* again: a1 is still current and no app-teardown callback has run
C13_Witness ==
    /\ op = [name |-> "RequestContext.pop", ctx |-> "r1"]
    /\ raised = None
    /\ req_tokens["r1"] = <<>>
    /\ cv_app = "a1"
    /\ app_tokens["a1"] = <<None>>
    /\ Count(log, "teardown_request") > 0
    /\ Count(log, "do_teardown_appcontext") = 0
\* C14: the namespace g of an AppContext keeps its contents across nested
\* push/pop pairs of the instance, and holds nothing when the instance is
\* pushed again after its last outstanding push was popped.
C14_GDiscardedAfterLastPop ==
    [][\A a \in ExplicitAppCtxs :
          /\ (StepOf("AppContext.push", a) /\ app_tokens[a] # <<>>)
                => g'[a] = g[a]
          /\ (StepOf("AppContext.pop", a) /\ Len(app_tokens[a]) > 1)
                => g'[a] = g[a]
          /\ (StepOf("AppContext.push", a) /\ app_tokens[a] = <<>>)
                => g'[a] = {}]_vars

\* C15: of an AppContext pushed k >= 2 times and popped k times, only the
\* last pop emits appcontext_popped; a nested pop, after which the
\* instance still holds a token, emits none.
C15_NestedPopEmitsNoPopped ==
    (op.name = "AppContext.pop" /\ op.ctx \in ExplicitAppCtxs
        /\ app_tokens[op.ctx] # <<>>)
      => Count(log, "appcontext_popped") = 0

\* C15 as the code has it: every AppContext.pop that returns emits exactly
\* one appcontext_popped event for its context, the nested pops included;
\* a pop that raises emits none.
C15_EveryReturningPopEmitsPopped ==
    (op.name = "AppContext.pop" /\ op.ctx \in ExplicitAppCtxs)
      => IF raised = None
         THEN /\ Count(log, "appcontext_popped") = 1
              /\ HasEvent("appcontext_popped", op.ctx)
         ELSE Count(log, "appcontext_popped") = 0

C15_Witness ==
    /\ op = [name |-> "AppContext.pop", ctx |-> "a1"]
    /\ raised = None
    /\ Len(app_tokens["a1"]) = 1
    /\ cv_app = "a1"
    /\ HasEvent("appcontext_popped", "a1")
    /\ Count(log, "do_teardown_appcontext") = 0

\* C16: AppContext.pop runs the app-teardown callbacks only when the
\* instance holds one token, the one this pop removes: then it calls them
\* in reverse registration order (every one of them unless one raises,
\* which ends the pop with that error), each with the exception passed to
\* pop, or with the exception in flight when pop got no argument. A nested
\* pop calls no app-teardown callback.
C16_AppTeardownOnLastTokenOnly ==
    [][\A a \in ExplicitAppCtxs, args \in PopArgs, ka \in 0..MaxHooks :
          AppPop(a, args, ka) =>
            LET exc1 == IF args.exc = Sentinel THEN args.ambient ELSE args.exc
                calls == SelectSeq(log', LAMBDA x : x.ev = "teardown_appcontext")
                order == Reversed(teardown_appcontext_funcs)
            IN  IF Len(app_tokens[a]) = 1
                THEN /\ Len(calls) <= Len(order)
                     /\ \A i \in 1..Len(calls) :
                           calls[i].f = order[i] /\ calls[i].arg = exc1
                     /\ Len(calls) < Len(order) => raised' = "TeardownError"
                     /\ raised' # "TeardownError" => Len(calls) = Len(order)
                ELSE calls = <<>>]_vars

C16_Witness ==
    LET calls == SelectSeq(log, LAMBDA x : x.ev = "teardown_appcontext")
    IN  /\ op = [name |-> "AppContext.pop", ctx |-> "a1"]
        /\ raised = None
        /\ app_tokens["a1"] = <<>>
        /\ Len(calls) = Len(teardown_appcontext_funcs)
        /\ Len(calls) >= 2
        /\ calls[1].f = Last(teardown_appcontext_funcs)
        /\ \A i \in 1..Len(calls) : calls[i].arg = "Err"

\* the registered handlers that a lookup for e in the scopes bps may return
Matching(e, bps) ==
    {k \in error_handler_spec :
        /\ k.scope \in Range(bps \o <<GlobalScope>>)
        /\ k.code \in {code_of(e), 0}
        /\ k.cls \in Range(mro(e))}
IndexIn(seq, x) == CHOOSE i \in 1..Len(seq) : seq[i] = x
\* the code of e before None
CodeRank(e, k) == IF k.code # 0 THEN 1 ELSE 2
\* innermost blueprint first, the application last
ScopeRank(bps, k) == IndexIn(bps \o <<GlobalScope>>, k.scope)
ClassRank(e, k) == IndexIn(mro(e), k.cls)

\* C17: _find_error_handler(e, blueprints) returns the first registered
\* handler in the order code of e then None, within a code innermost
\* blueprint to outermost then global, within a scope the classes of the
\* mro; None when there is none. In one scope a ValueError handler wins over
\* an Exception handler, and a blueprint 404 handler over a global one.
C17_FirstByCodeThenScopeThenClass ==
    lookup.e # None =>
      LET e == lookup.e
          bps == lookup.blueprints
          h == lookup.handler
          M == Matching(e, bps)
          names == bps \o <<GlobalScope>>
      IN  /\ (h = NoHandler) <=> (M = {})
          /\ M # {} =>
               /\ h \in M
               /\ \A k \in M :
                    \/ CodeRank(e, h) < CodeRank(e, k)
                    \/ /\ CodeRank(e, h) = CodeRank(e, k)
                       /\ ScopeRank(bps, h) < ScopeRank(bps, k)
                    \/ /\ CodeRank(e, h) = CodeRank(e, k)
                       /\ ScopeRank(bps, h) = ScopeRank(bps, k)
                       /\ ClassRank(e, h) <= ClassRank(e, k)
          /\ \A s \in Range(names) :
               (/\ e = "ValueError"
                /\ HandlerKey(s, 0, "ValueError") \in error_handler_spec
                /\ HandlerKey(s, 0, "Exception") \in error_handler_spec)
                 => h # HandlerKey(s, 0, "Exception")
          /\ \A s \in Range(bps) :
               (/\ e = "NotFound"
                /\ HandlerKey(s, 404, "NotFound") \in error_handler_spec
                /\ HandlerKey(GlobalScope, 404, "NotFound") \in error_handler_spec)
                 => h.code = 404 /\ h.scope # GlobalScope

C17_Witness ==
    /\ lookup.e = "NotFound"
    /\ lookup.blueprints = <<<<"p", "c">>, <<"p">>>>
    /\ HandlerKey(<<"p">>, 404, "NotFound") \in error_handler_spec
    /\ HandlerKey(GlobalScope, 404, "NotFound") \in error_handler_spec
    /\ HandlerKey(<<"p", "c">>, 0, "HTTPException") \in error_handler_spec
    /\ lookup.handler = HandlerKey(<<"p">>, 404, "NotFound")

\* C18: resolution prefers the most specific scope, then the most specific
\* code, then the most specific class: when a handler registered in a
\* blueprint scope of the request matches the exception, by code or by
\* class, the handler chosen is not one of the global scope.
C18_BlueprintHandlerBeatsGlobal ==
    lookup.e # None =>
      ((\E k \in Matching(lookup.e, lookup.blueprints) : k.scope # GlobalScope)
         => lookup.handler.scope # GlobalScope)

\* C18 as the code has it: the code comes first, then the scope, then the
\* class. A matching handler registered for the code of the exception is
\* chosen over every handler registered for a class without code, whatever
\* their scopes; among the matching handlers under one code key the one in
\* the innermost scope is chosen. A global handler is chosen over a matching
\* blueprint handler exactly when it is registered for the code and every
\* matching blueprint handler is registered for a class without code.
C18_CodeBeforeScope ==
    lookup.e # None =>
      LET e == lookup.e
          bps == lookup.blueprints
          h == lookup.handler
          M == Matching(e, bps)
      IN  /\ (\E k \in M : k.code # 0) => h.code = code_of(e)
          /\ \A k \in M :
               k.code = h.code => ScopeRank(bps, h) <= ScopeRank(bps, k)
          /\ (/\ \E k \in M : k.scope # GlobalScope
              /\ h \in M
              /\ h.scope = GlobalScope)
               => /\ h.code # 0
                  /\ \A k \in M : k.scope # GlobalScope => k.code = 0

C18_Witness ==
    /\ lookup.e = "NotFound"
    /\ lookup.blueprints = <<<<"p">>>>
    /\ HandlerKey(<<"p">>, 0, "HTTPException") \in error_handler_spec
    /\ HandlerKey(GlobalScope, 404, "NotFound") \in error_handler_spec
    /\ lookup.handler = HandlerKey(GlobalScope, 404, "NotFound")

\* what handle_exception did when it converted the exception `error`: the
\* handler calls logged after log_exception
Converted == ~propagate_exceptions /\ Count(log, "log_exception") > 0
HandlerCallsAfterLogException ==
    LET i == CHOOSE j \in 1..Len(log) : log[j].ev = "log_exception"
    IN  SelectSeq(SubSeq(log, i + 1, Len(log)),
                  LAMBDA x : x.ev = "error_handler")
\* handle_exception has returned into finalize_request
AtFinalizeOfError == pc = "finalize_request" /\ error # None

\* C19: when an unhandled exception is converted, the handler looked up is
\* the one registered for 500 / InternalServerError; it is called with the
\* InternalServerError wrapper, never with the original exception, and what
\* it returns is the result; when no handler is registered for 500 /
\* InternalServerError the wrapper itself is the result.
C19_Only500HandlerElseWrapper ==
    Converted =>
      LET names == blueprints(url_rule[W]) \o <<GlobalScope>>
          H500 == {k \in error_handler_spec :
                      /\ k.scope \in Range(names)
                      /\ k.code = 500
                      /\ k.cls = "InternalServerError"}
          calls == HandlerCallsAfterLogException
      IN  IF H500 = {}
          THEN /\ calls = <<>>
               /\ AtFinalizeOfError => rv = "InternalServerError"
          ELSE /\ Len(calls) = 1
               /\ calls[1].arg = "InternalServerError"
               /\ calls[1].arg # error
               /\ HandlerKey(calls[1].scope, calls[1].f, "InternalServerError")
                     \in H500
               /\ AtFinalizeOfError => rv \in {"handler500_rv", None}

\* C19 as the code has it: the handler is the one _find_error_handler gives
\* for the InternalServerError wrapper in the scopes of the request, which
\* is a handler registered for 500 / InternalServerError or, when there is
\* none, one registered for a base class of it (HTTPException, Exception).
\* It is called once, with the wrapper and never with the original
\* exception, and what it returns is the result; only when the lookup finds
\* no handler is the wrapper itself the result.
C19_HandlerOfWrapperLookup ==
    Converted =>
      LET h == find_error_handler("InternalServerError", blueprints(url_rule[W]))
          calls == HandlerCallsAfterLogException
      IN  IF h = NoHandler
          THEN /\ calls = <<>>
               /\ AtFinalizeOfError => rv = "InternalServerError"
          ELSE /\ Len(calls) = 1
               /\ calls[1].arg = "InternalServerError"
               /\ calls[1].arg # error
               /\ calls[1].scope = h.scope /\ calls[1].f = h.code
               /\ AtFinalizeOfError => rv \in {"handler500_rv", None}

C19_Witness ==
    /\ Converted
    /\ AtFinalizeOfError
    /\ error = "KeyError"
    /\ error_handler_spec = {HandlerKey(GlobalScope, 0, "HTTPException")}
    /\ Len(HandlerCallsAfterLogException) = 1
    /\ HandlerCallsAfterLogException[1].arg = "InternalServerError"
    /\ rv = "handler500_rv"

\* handle_exception was called and has returned or raised into wsgi_app
HandleEntered == Count(log, "got_request_exception") > 0
HandleLeft == HandleEntered /\ pc = "pop"
\* the propagate-exceptions policy as the claim words it
PolicyOn ==
    IF config.PROPAGATE_EXCEPTIONS # "None"
    THEN config.PROPAGATE_EXCEPTIONS = "True"
    ELSE config.TESTING \/ config.DEBUG

\* C20: handle_exception re-raises the unhandled exception exactly when the
\* policy (the PROPAGATE_EXCEPTIONS setting when configured, otherwise
\* testing or debug) is on; when it is off the caller receives a 500
\* response and no exception; under the default configuration the
\* exception never propagates.
C20_ReraiseElse500Response ==
    /\ config = DefaultConfig => ~PolicyOn
    /\ HandleLeft =>
          IF PolicyOn
          THEN pending = error
          ELSE pending = None /\ status_of(response) = 500

\* C20 as the code has it: with the policy on, handle_exception re-raises
\* the unhandled exception, logs nothing and calls no handler. With the
\* policy off it logs the exception and never re-raises it: the caller
\* receives the generic 500 response when no handler is found for the
\* InternalServerError wrapper; when one is found the caller receives the
\* response made from what the handler returned, with the status the
\* handler chose, or the exception of a handler that raised, or the
\* TypeError of make_response for a handler that returned None.
C20_ReraiseIffPolicyOn ==
    /\ config = DefaultConfig => ~PolicyOn
    /\ HandleLeft =>
          LET h == find_error_handler("InternalServerError",
                                      blueprints(url_rule[W]))
          IN  IF PolicyOn
              THEN /\ pending = error
                   /\ response = None
                   /\ Count(log, "log_exception") = 0
                   /\ ~\E i \in 1..Len(log) :
                         /\ log[i].ev = "error_handler"
                         /\ log[i].arg = "InternalServerError"
              ELSE /\ Count(log, "log_exception") = 1
                   /\ IF h = NoHandler
                      THEN /\ pending = None
                           /\ response = "InternalServerError"
                           /\ status_of(response) = 500
                      ELSE /\ Len(HandlerCallsAfterLogException) = 1
                           /\ \/ pending = None /\ response = "handler500_rv"
                              \/ pending \in {"HandlerError", "TypeError"}
                                   /\ response = None

C20_Witness ==
    /\ HandleLeft
    /\ config = [DefaultConfig EXCEPT !.DEBUG = TRUE]
    /\ error = "KeyError"
    /\ pending = "KeyError"
    /\ Count(log, "view") > 0

\* the m-th finalization was called by handle_exception (from_error_handler)
ErrorPass(m) == \E j \in 1..MRIdx[m] : log[j].ev = "log_exception"
PassLogged(m) ==
    \E j \in MRIdx[m]..PassEnd(m) : log[j].ev = "logger.exception"
FinalizeErrors == {"KeyError", "SaveError", "SignalError"}

\* C21: when an after-request hook, save_session or the request_finished
\* signal raises in finalize_request, a finalization that is part of error
\* handling logs the exception and returns the response all the same; any
\* other finalization lets the exception out, to handle_exception, and
\* produces no response.
C21_FinalizeSwallowsOnlyInErrorHandling ==
    \A m \in 1..Len(MRIdx) :
        PassRaised(m) =>
          IF ErrorPass(m)
          THEN /\ PassLogged(m)
               /\ m = Len(MRIdx)
               /\ pc \in {"pop", "done"}
               /\ pending = None
               /\ response = log[MRIdx[m]].arg
          ELSE /\ ~PassLogged(m)
               /\ m = 1
               /\ \/ /\ pc = "handle_exception"
                     /\ caught \in FinalizeErrors
                     /\ response = None
                  \/ \E j \in (MRIdx[m] + 1)..Len(log) :
                        /\ log[j].ev = "got_request_exception"
                        /\ log[j].arg \in FinalizeErrors

C21_Witness ==
    /\ pc = "pop"
    /\ Len(MRIdx) = 1
    /\ ErrorPass(1)
    /\ HasEvent("request_finished", "raise")
    /\ PassLogged(1)
    /\ pending = None
    /\ response = "InternalServerError"

\* the calls of make_response with a value it rejects (None stands for the
\* results make_response raises TypeError for)
Rejected == {i \in Range(MRIdx) : ~valid_rv(log[i].arg)}
HandlerCallsAfter(i) ==
    SelectSeq(SubSeq(log, i + 1, Len(log)), LAMBDA x : x.ev = "error_handler")

C23_SaveSessionAfterHooksBeforeFinished ==
    \A m \in 1..Len(MRIdx) :
        LET lo == MRIdx[m]
            hi == PassEnd(m)
            saves == {j \in lo..hi : log[j].ev = "save_session"}
            hookRaised == \E j \in lo..hi :
                             /\ log[j].ev \in {"after_this_request", "after_request"}
                             /\ log[j].arg = "raise"
        IN  /\ Cardinality(saves) <= 1
            /\ saves # {} => session[W] # "null"
            /\ (valid_rv(log[lo].arg) /\ session[W] # "null" /\ ~hookRaised)
                  => saves # {}
            /\ \A j \in saves :
                  /\ Range(CallsOf("after_request", lo, j))
                        = Registered(after_request_funcs)
                  /\ \A i \in lo..hi :
                        /\ log[i].ev \in {"after_this_request", "after_request"}
                              => i < j
                        /\ log[i].ev = "request_finished" => j < i
                  /\ log[j].arg = "ok" =>
                        /\ j < Len(log)
                        /\ log[j + 1].ev = "request_finished"

C23_Witness ==
    /\ Done
    /\ result.kind = "returned"
    /\ session[W] = "session"
    /\ Len(MRIdx) = 1
    /\ Len(AfterPass(1)) = 3 * MaxHooks
    /\ MaxHooks >= 2
    /\ Count(log, "save_session") = 1
    /\ Count(log, "request_finished") = 1
    /\ url_rule[W] = <<"p", "c", "view">>

\* C24: a RequestContext.push that returns leaves the session of the
\* context set: a context whose session was unset got what open_session
\* returned, or a null session when that was None, by one call of
\* open_session; a context that had a session keeps it and open_session is
\* not called; the URL is matched after the session is set.
C24_SessionSetByPush ==
    [][\A r \in ReqCtxs :
          (StepOf("RequestContext.push", r) /\ raised' = None) =>
            /\ session'[r] # None
            /\ IF session[r] = None
               THEN /\ Count(log', "open_session") = 1
                    /\ session'[r] = IF open_session[r] = "None"
                                     THEN "null" ELSE open_session[r]
               ELSE /\ Count(log', "open_session") = 0
                    /\ session'[r] = session[r]
            /\ Count(log', "match_request") = (IF url_adapter[r] THEN 1 ELSE 0)
            /\ Precede(log', {"open_session"}, {"match_request"})
            /\ Precede(log', {"appcontext_pushed"}, {"open_session"})]_vars

\* the context r2, whose open_session returns None, pushed a second time
C24_Witness ==
    /\ op = [name |-> "RequestContext.push", ctx |-> "r2"]
    /\ raised = None
    /\ Len(req_tokens["r2"]) = 2
    /\ session["r2"] = "null"
    /\ Count(log, "open_session") = 0
    /\ Count(log, "match_request") = 1

\* C25: on a null session a lookup with default, a membership test, an
\* iteration and a length succeed and see no item; __setitem__,
\* __delitem__, clear, pop, popitem, update and setdefault raise
\* RuntimeError and leave the session as it was; a null session never
\* holds an item.
C25_NullSessionReadOnlyAndEmpty ==
    [][(sobj.cls = "NullSession" /\ sobj' # NoSession /\ sret' # NoOp) =>
         /\ sobj'.cls = "NullSession"
         /\ sobj.data = {} /\ sobj'.data = {}
         /\ sret'.name \in WriteOps =>
               sret'.exc = "RuntimeError" /\ sobj' = sobj
         /\ sret'.name \in ReadOps =>
               /\ sret'.exc = None
               /\ sret'.ret = (CASE sret'.name = "get" -> Default
                                 [] sret'.name = "__contains__" -> FALSE
                                 [] sret'.name = "__iter__" -> {}
                                 [] sret'.name = "__len__" -> 0)]_vars

C25_Witness ==
    /\ sobj.cls = "NullSession"
    /\ sobj.accessed
    /\ sret.name = "update"
    /\ sret.exc = "RuntimeError"
    /\ sobj.data = {}

\* C26 as the specification states it: the copy has the request and the
\* session of the original and an empty token list, a push of a copy never
\* calls open_session, and a push or pop of one context leaves the token
\* list of the other as it was.
C26_CopyPushNeverOpensSession ==
    [][\A o \in ReqCtxs : \A c \in ReqCtxs \ {o} :
          /\ (StepOf("RequestContext.copy", o) /\ copy_of'[c] = o) =>
                /\ request'[c] = request[o]
                /\ session'[c] = session[o]
                /\ req_tokens'[c] = <<>>
          /\ (StepOf("RequestContext.push", c) /\ copy_of[c] = o) =>
                Count(log', "open_session") = 0
          /\ (StepOf("RequestContext.push", c) \/ StepOf("RequestContext.pop", c)) =>
                req_tokens'[o] = req_tokens[o]]_vars

\* C26: the copy has the request object and the session of the original
\* at the time of the copy (no session when the original had none yet) and
\* an empty token list; a push of a copy that got a session from the
\* original does not call open_session and keeps that session, a push of
\* a copy made before the original had a session calls it; a push or pop
\* of one context leaves the token list of the other as it was.
C26_CopySharesRequestAndSession ==
    [][\A o \in ReqCtxs : \A c \in ReqCtxs \ {o} :
          /\ (StepOf("RequestContext.copy", o) /\ copy_of'[c] = o) =>
                /\ request'[c] = request[o]
                /\ session'[c] = session[o]
                /\ req_tokens'[c] = <<>>
                /\ req_tokens'[o] = req_tokens[o]
          /\ (StepOf("RequestContext.push", c) /\ copy_of[c] = o
                 /\ raised' = None) =>
                /\ Count(log', "open_session") = (IF session[c] = None THEN 1 ELSE 0)
                /\ session[c] # None => session'[c] = session[c]
          /\ (StepOf("RequestContext.push", c) \/ StepOf("RequestContext.pop", c)) =>
                req_tokens'[o] = req_tokens[o]]_vars

\* r2, copied from r1 while r1 was pushed, is pushed in its turn: both hold
\* the session r1 opened and a token list of their own
C26_Witness ==
    /\ op = [name |-> "RequestContext.push", ctx |-> "r2"]
    /\ raised = None
    /\ copy_of["r2"] = "r1"
    /\ request["r2"] = request["r1"]
    /\ session["r1"] = "session"
    /\ session["r2"] = "session"
    /\ Count(log, "open_session") = 0
    /\ Len(req_tokens["r1"]) = 1
    /\ Len(req_tokens["r2"]) = 1

\* the app contexts that request contexts of u pushed and still hold
ImplicitOf(u) ==
    UNION {{req_tokens[r][j].app_ctx : j \in 1..Len(req_tokens[r])} :
              r \in {q \in ReqCtxs : Owner[q] = u}}

\* C27: under every interleaving of the units, a push or pop leaves what
\* _cv_app.get() and _cv_request.get() return in every other unit as it
\* was, a switch of units leaves it as it was in all of them, and each
\* slot of a unit holds nothing, what the unit started with, or a context
\* the unit pushed.
C27_SlotsAreLocalToTheUnit ==
    [][/\ \A u \in Units :
            (inherited[u] # Unstarted /\ (u # unit \/ unit' # unit)) =>
               View(u)' = View(u)
       /\ \A u \in Units : inherited'[u] # Unstarted =>
            /\ View(u)'.cv_request \in
                  {None, inherited'[u].cv_request} \cup {r \in ReqCtxs : Owner[r] = u}
            /\ View(u)'.cv_app \in
                  {None, inherited'[u].cv_app}
                    \cup {a \in ExplicitAppCtxs : Owner[a] = u}
                    \cup ImplicitOf(u)']_vars

\* u2 runs with its own request pushed while u1 is parked with its own
C27_Witness ==
    /\ unit = "u2"
    /\ op = [name |-> "RequestContext.push", ctx |-> "r2"]
    /\ cv_request = "r2"
    /\ parked["u1"].cv_request = "r1"
    /\ parked["u1"].cv_app # cv_app
    /\ parked["u1"].cv_app # None

\* the body of a tuple result is of a type make_response turns into a
\* response
CoercibleBody(b) == b.t \in {"Response"} \cup TextTypes \cup JsonTypes

\* C28: a 3-tuple (body, status, headers) with a body of an accepted type
\* and a status (an integer or a status line, not None)
\* gives a response with the status of the tuple, whatever the status of
\* the body was, with every header of the tuple, and with the headers of
\* the body whose names the tuple does not give.
C28_TupleStatusAndHeadersApplied ==
    (view_rv.t = "tuple" /\ Len(view_rv.elems) = 3 /\ CoercibleBody(view_rv.elems[1])
       /\ view_rv.elems[2].t # "NoneType") =>
      LET body == view_rv.elems[1]
          status == view_rv.elems[2]
          headers == view_rv.elems[3].items
      IN  /\ made.t = "Response"
          /\ made.status_code = (IF status.t = "int" THEN status.n ELSE 202)
          /\ headers \subseteq made.headers
          /\ body.t = "Response" =>
                \A p \in body.headers : ~Named(headers, p[1]) => p \in made.headers

\* a 404 response with a header A, returned with status 201 and another A
C28_Witness ==
    /\ view_rv = TupleV(<<ResponseV(404, {ContentType("text/plain"), <<"A", "1">>}, StrV("z")),
                         IntV(201), DictV({<<"A", "2">>})>>)
    /\ made = ResponseV(201, {ContentType("text/plain"), <<"A", "2">>}, StrV("z"))

\* the result is a 2- or 3-tuple whose body is a tuple result of its own
NestedTuple(v) ==
    /\ v.t = "tuple"
    /\ Len(v.elems) \in {2, 3}
    /\ v.elems[1].t = "tuple"
    /\ make_response(v.elems[1]).t = "Response"

\* C29 as the specification states it: a tuple result whose body is a valid
\* tuple result is accepted and gives a response.
C29_TupleBodyCoercedRecursively ==
    NestedTuple(view_rv) => made.t = "Response"

\* C29: the body of a 2- or 3-tuple result is not unpacked again: it is
\* turned into a response when it is a response, a text or a dict or list,
\* and a body that is a tuple, a valid result of its own included, makes
\* make_response raise TypeError.
C29_TupleBodyNotUnpacked ==
    (view_rv.t = "tuple" /\ Len(view_rv.elems) \in {2, 3}) =>
      /\ CoercibleBody(view_rv.elems[1]) => made.t = "Response"
      /\ view_rv.elems[1].t = "tuple" => made = TypeError

\* (("x", 201), "202 ACCEPTED") was returned and rejected
C29_Witness ==
    /\ view_rv = TupleV(<<TupleV(<<StrV("x"), IntV(201)>>), StrV("202 ACCEPTED")>>)
    /\ NestedTuple(view_rv)
    /\ made = TypeError

\* the events the order is about, in the order stated
Phases ==
    <<"appcontext_pushed", "request_started", "url_value_preprocessor",
      "before_request", "view", "after_this_request", "after_request",
      "save_session", "request_finished", "teardown_request",
      "request_tearing_down", "cv_request.reset", "teardown_appcontext",
      "appcontext_tearing_down", "cv_app.reset", "appcontext_popped">>
PhaseOf(e) == CHOOSE n \in 1..Len(Phases) : Phases[n] = e
OncePhases ==
    {"appcontext_pushed", "request_started", "request_finished",
     "request_tearing_down", "cv_request.reset", "appcontext_tearing_down",
     "cv_app.reset", "appcontext_popped"}

\* wsgi_app returned a response and nothing raised on the way
CompletedWithoutError ==
    /\ Done
    /\ result.kind = "returned"
    /\ caught = None
    /\ error = None
    /\ faults = 0

\* C30: in a request that wsgi_app completes without error the events come
\* in the order app-context-pushed, request-started, URL-value
\* preprocessors, before-request hooks, view, after_this_request callbacks,
\* after-request hooks, session save, request-finished, request-teardown
\* callbacks, request-tearing-down, reset of the request slot, app-teardown
\* callbacks, appcontext-tearing-down, reset of the app slot,
\* app-context-popped; the signals and resets occur once each, the view at
\* most once, every registered callback of the request is called unless a
\* before-request hook answered the request, and every URL-value
\* preprocessor is called before the first before-request hook.
C30_EventsInOrder ==
    CompletedWithoutError =>
      LET P == PosOf(log, Range(Phases))
          answered == \E i \in PosOf(log, {"before_request"}) : log[i].arg # None
      IN  /\ \A i \in P : \A j \in P :
                i < j => PhaseOf(log[i].ev) <= PhaseOf(log[j].ev)
          /\ \A e \in OncePhases : Count(log, e) = 1
          /\ Count(log, "view") = (IF answered THEN 0 ELSE 1)
          /\ Count(log, "save_session") = (IF session[W] = "null" THEN 0 ELSE 1)
          /\ Range(UrlRun) = Registered(url_value_preprocessors)
          /\ ~answered => Range(BeforeRun) = Registered(before_request_funcs)
          /\ Count(log, "after_this_request") = Len(after_this)
          /\ ~answered => Len(after_this) = Len(view_calls)
          /\ Range(AfterPass(1)) = Registered(after_request_funcs)
          /\ Range(TeardownRun) = Registered(teardown_request_funcs)
          /\ Count(log, "teardown_appcontext") = Len(teardown_appcontext_funcs)

\* the view of the nested blueprint answered with every kind of callback
\* registered and a session to save
C30_Witness ==
    /\ CompletedWithoutError
    /\ url_rule[W] = <<"p", "c", "view">>
    /\ Count(log, "view") = 1
    /\ Count(log, "url_value_preprocessor") = 3 * MaxHooks
    /\ Count(log, "before_request") = 3 * MaxHooks
    /\ Count(log, "after_this_request") = 1
    /\ Count(log, "after_request") = 3 * MaxHooks
    /\ Count(log, "save_session") = 1
    /\ Count(log, "teardown_request") = 3 * MaxHooks
    /\ Count(log, "teardown_appcontext") = MaxHooks
    /\ MaxHooks >= 2

\* ------------------------------------------------------------------ C31
\* the calls of registered error handlers in the log
HandlerCalls == {i \in 1..Len(log) : log[i].ev = "error_handler"}

\* handle_user_exception has dealt with the HTTP exception `caught`, which
\* the application does not trap, and nothing has raised since
HttpHandled ==
    /\ caught \in HTTPExceptions
    /\ ~trap_http_exception(caught)
    /\ pc \in {"finalize_request", "pop", "done"}

\* C31: for an untrapped HTTP exception raised by a view or left by the URL
\* match, the value given to finalize_request is the exception itself, with
\* no error handler called, when it has no code or is a routing exception,
\* whether or not a handler matching it is registered; otherwise it is what
\* the matching registered handler returned (called once, with the
\* exception), when there is one; otherwise the exception itself.  In each
\* case handle_exception is not entered for it: got_request_exception is not
\* sent and the exception is not logged.
C31_UntrappedHttpExceptionResult ==
    HttpHandled =>
        LET e == caught
            h == find_error_handler(e, blueprints(url_rule[W]))
        IN  /\ \A i \in 1..Len(log) :
                  log[i].ev \notin {"got_request_exception", "log_exception"}
            /\ error = None
            /\ IF code_of(e) = 0 \/ e \in RoutingExceptions \/ h = NoHandler
               THEN HandlerCalls = {} /\ rv = e
               ELSE /\ Cardinality(HandlerCalls) = 1
                    /\ \A i \in HandlerCalls :
                          log[i] = Ev("error_handler", h.scope, h.code, e)
                    /\ rv \in {"handler_rv", None}

\* a request ended with the routing redirect of its URL match as its
\* response, although a handler matching the redirect is registered
C31_Witness ==
    /\ HttpHandled
    /\ pc = "done"
    /\ caught = "RequestRedirect"
    /\ find_error_handler(caught, blueprints(url_rule[W])) # NoHandler
    /\ result = [kind |-> "returned", val |-> "RequestRedirect"]

\* ------------------------------------------------------------------ C32
\* the callback an entry of the log is the call of
CalledFunc(e) == <<e.scope, e.f, e.ev>>

\* C32: process_response calls the functions given to after_this_request
\* during the request first, in the order they were added, then the
\* registered after-request functions; the first call is given the response
\* process_response was called with and every later call the response the
\* call before it returned, and process_response returns what the last call
\* returned.  after_this_request with no request context in the request
\* slot raises RuntimeError and leaves the list of functions as it was;
\* with one it appends the function to the list.
C32_AfterThisRequestFirstInAddedOrder ==
    [][/\ op'.name = "process_response" =>
            LET n == Len(after_this)
                H == AfterOrder(CurrentBlueprints(CtxState))
                m == n + Len(H)
            IN  /\ Len(log') >= m
                /\ \A i \in 1..Len(log') :
                      i > m => log'[i].ev = "save_session"
                /\ \A i \in 1..n :
                      CalledFunc(log'[i]) =
                          <<GlobalScope, after_this[i], "after_this_request">>
                /\ \A i \in 1..Len(H) :
                      CalledFunc(log'[n + i]) =
                          <<H[i][1], H[i][2], "after_request">>
                /\ \A i \in 1..m :
                      log'[i].arg =
                          IF i = 1 THEN <<>>
                          ELSE returned(CalledFunc(log'[i - 1]), log'[i - 1].arg)
                /\ made'.by =
                      IF m = 0 THEN <<>>
                      ELSE returned(CalledFunc(log'[m]), log'[m].arg)
       /\ op'.name = "after_this_request" =>
            IF cv_request = None
            THEN raised' = "RuntimeError" /\ after_this' = after_this
            ELSE /\ raised' = None
                 /\ Len(after_this') = Len(after_this) + 1
                 /\ SubSeq(after_this', 1, Len(after_this)) = after_this
      ]_vars

\* process_response ran in a request in which the function 2 and then the
\* function 1 were given to after_this_request, with after-request
\* functions registered on the application and on the blueprints of the
\* request
C32_Witness ==
    /\ op.name = "process_response"
    /\ after_this = <<2, 1>>
    /\ Len(AfterOrder(CurrentBlueprints(CtxState))) > MaxHooks
    /\ Len(log) > 2 + MaxHooks

\* ------------------------------------------------------------------ C33
\* the exception that reached an except clause of wsgi_app: the one
\* handle_exception was called with (it sends got_request_exception first),
\* or the BaseException the view raised; None when there was none
ReachedExcept ==
    IF \E i \in 1..Len(log) : log[i].ev = "got_request_exception"
    THEN log[CHOOSE i \in 1..Len(log) : log[i].ev = "got_request_exception"].arg
    ELSE IF \E i \in 1..Len(log) :
               log[i].ev = "view" /\ log[i].arg \in BaseExceptions
    THEN log[CHOOSE i \in 1..Len(log) : log[i].ev = "view"].arg
    ELSE None

TeardownCalls ==
    {i \in 1..Len(log) :
        log[i].ev \in {"teardown_request", "teardown_appcontext"}}

\* C33: the request-teardown and app-teardown callbacks that wsgi_app's pop
\* calls are given the exception that reached an except clause of wsgi_app,
\* and None when none did: when every exception of the request was turned
\* into a result by a registered error handler or was an untrapped HTTP
\* exception returned as the result.
C33_TeardownGetsOnlyUnhandledException ==
    pc = "done" =>
        /\ \A i \in TeardownCalls : log[i].arg = ReachedExcept
        /\ (caught # None /\ error = None) => ReachedExcept = None

\* the view raised KeyError, the registered handler returned a value, and
\* the teardown callbacks of both kinds were called with None
C33_Witness ==
    /\ pc = "done"
    /\ caught = "KeyError"
    /\ \E i \in 1..Len(log) :
          log[i] = Ev("error_handler", GlobalScope, 0, "KeyError")
    /\ result = [kind |-> "returned", val |-> "handler_rv"]
    /\ \E i \in TeardownCalls : log[i].ev = "teardown_request"
    /\ \E i \in TeardownCalls : log[i].ev = "teardown_appcontext"
    /\ \A i \in TeardownCalls : log[i].arg = None

\* ------------------------------------------------------------------ C34
SetupMethods == {"teardown_appcontext", "add_url_rule", "register_blueprint"}

\* this step is a call of a setup method of the application
SetupCall == op' # op /\ op'.name \in SetupMethods

\* the registries of hooks, handlers, routes and blueprints
Registries ==
    <<url_value_preprocessors, before_request_funcs, after_request_funcs,
      teardown_request_funcs, teardown_appcontext_funcs, error_handler_spec,
      url_map, app_blueprints, got_registered_once>>

\* full_dispatch_request has run for this application
FullDispatchRan == \E i \in 1..Len(log) : log[i].ev = "request_started"

\* C34 as stated: a setup method called before full_dispatch_request has
\* run is not rejected, and every call after it has run raises
\* AssertionError and changes no registry.
C34_SetupRejectedOnceDispatched ==
    [][SetupCall =>
          IF FullDispatchRan
          THEN raised' = "AssertionError" /\ Registries' = Registries
          ELSE raised' # "AssertionError"]_vars

\* C34: full_dispatch_request sets _got_first_request, and only the finally
\* block of Flask.run clears it again; a setup method called while it is
\* set raises AssertionError and changes no registry, and one called while
\* it is not set, before the first request or after run has returned, is
\* not rejected.
C34_SetupRejectedWhileFlagSet ==
    [][/\ SetupCall =>
             IF got_first_request
             THEN raised' = "AssertionError" /\ Registries' = Registries
             ELSE raised' # "AssertionError"
       /\ (pc = "full_dispatch_request" /\ pc' # pc) => got_first_request'
       /\ (got_first_request /\ ~got_first_request') => op'.name = "run"
       /\ (~got_first_request /\ got_first_request') =>
              pc = "full_dispatch_request"
      ]_vars

\* teardown_appcontext was called after the request was served and raised
\* AssertionError; the list of callbacks is as it was before the request
C34_Witness ==
    /\ op.name = "teardown_appcontext"
    /\ FullDispatchRan
    /\ got_first_request
    /\ raised = "AssertionError"
    /\ teardown_appcontext_funcs = <<>>

\* ------------------------------------------------------------------ C40
\* C40: every registration of a blueprint on the application comes to an
\* end by itself: the calls of Blueprint.register never nest deeper than
\* there are blueprints, and the recursion limit is never reached.
C40_RegisterTerminates ==
    /\ Len(registering) <= Cardinality(Blueprints)
    /\ raised # "RecursionError"

CallsIn(evs, e) ==
    LET sel == SelectSeq(evs, LAMBDA x : x.ev = e)
    IN  [i \in 1..Len(sel) |-> <<sel[i].scope, sel[i].f>>]

\* C36: when the request-teardown callback k raises in the outermost pop of
\* the current request context, whose application context (if it pushed
\* one) is the current one, and no app-teardown callback raises, pop
\* still resets the request slot with its token, pops the application
\* context the token names, whose app-teardown callbacks all run, and then
\* raises the callback's exception; the request-teardown callbacks after
\* the k-th are not called and request_tearing_down is not sent.
C36_FailedRequestTeardownStillUnwinds ==
    [][\A r \in ReqCtxs : \A args \in PopArgs : \A k \in 1..MaxTeardown :
          (/\ Len(req_tokens[r]) = 1
           /\ cv_request = r
           /\ Last(req_tokens[r]).app_ctx \in {None, cv_app}
           /\ op'.name = "RequestContext.pop"
           /\ ReqPop(r, args, k, 0)) =>
            LET tok == Last(req_tokens[r])
                order == TeardownRequestOrder(blueprints(url_rule[r]))
            IN  /\ raised' = "TeardownError"
                /\ cv_request' = tok.old
                /\ req_tokens'[r] = <<>>
                /\ Count(log', "cv_request.reset") = 1
                /\ CallsIn(log', "teardown_request") = SubSeq(order, 1, k)
                /\ Count(log', "request_tearing_down") = 0
                /\ tok.app_ctx # None =>
                      /\ cv_app' = Last(app_tokens[tok.app_ctx])
                      /\ app_tokens'[tok.app_ctx] = <<>>
                      /\ Count(log', "cv_app.reset") = 1
                      /\ CallsIn(log', "teardown_appcontext")
                             = TeardownAppcontextOrder
                      /\ Count(log', "appcontext_tearing_down") = 1
                /\ tok.app_ctx = None =>
                      /\ cv_app' = cv_app
                      /\ Count(log', "do_teardown_appcontext") = 0]_vars

\* the only push of a request context that owns its application context
\* was popped; the first request-teardown callback called raised, the others
\* were not called, and the application context was torn down and popped
C36_Witness ==
    /\ op = [name |-> "RequestContext.pop", ctx |-> "r1"]
    /\ raised = "TeardownError"
    /\ Count(log, "teardown_request") = 1
    /\ Len(teardown_request_funcs[GlobalScope]) > 1
    /\ Count(log, "request_tearing_down") = 0
    /\ Count(log, "teardown_appcontext") = Len(teardown_appcontext_funcs)
    /\ Count(log, "appcontext_tearing_down") = 1
    /\ Count(log, "cv_app.reset") = 1
    /\ cv_request = None
    /\ cv_app = None

\* ------------------------------------------------------------------ C37
\* the callbacks process_response called in the m-th finalization
ResponseCalls(m) ==
    LET evs == SelectSeq(SubSeq(log, MRIdx[m], PassEnd(m)),
                         LAMBDA x : x.ev \in {"after_this_request",
                                              "after_request"})
    IN  [i \in 1..Len(evs) |-> CalledFunc(evs[i])]

IsPrefix(s, t) == Len(s) <= Len(t) /\ s = SubSeq(t, 1, Len(s))

\* C37: when an after_this_request callback, an after-request hook,
\* save_session or a receiver of request_finished raises in the
\* finalization of the dispatch result, and handle_exception answers with
\* the 500 response or with what the registered handler returned, the
\* finalization of that answer runs process_response again from its start:
\* both finalizations call the after_this_request callbacks and then the
\* after-request hooks in the same order, each up to the callback that
\* raises in it, so unless one raises the second time, every callback the
\* first finalization had called is called again, and the rest after them.
C37_FinalizeErrorRunsPipelineTwice ==
    (pc = "done" /\ Len(MRIdx) >= 1 /\ PassRaised(1) /\ ~ErrorPass(1)) =>
        LET answered == Len(MRIdx) = 2 /\ valid_rv(log[MRIdx[2]].arg)
        IN  /\ Len(MRIdx) <= 2
            /\ (\A i \in 1..Len(log) : log[i].ev # "error_handler") =>
                   Len(MRIdx) = 2 /\ log[MRIdx[2]].arg = "InternalServerError"
            /\ answered =>
                   LET order == ResponseOrder(blueprints(url_rule[W]))
                   IN  /\ IsPrefix(ResponseCalls(1), order)
                       /\ IsPrefix(ResponseCalls(2), order)
                       /\ order # <<>> => ResponseCalls(2)[1] = order[1]
                       /\ ~PassRaised(2) =>
                              /\ ResponseCalls(2) = order
                              /\ IsPrefix(ResponseCalls(1), ResponseCalls(2))

\* the second after-request hook called raised in the first finalization;
\* the callback given to after_this_request and the hooks were then called
\* again for the 500 response, the callback twice in the request
C37_Witness ==
    /\ pc = "done"
    /\ Len(MRIdx) = 2
    /\ PassRaised(1)
    /\ ~PassRaised(2)
    /\ Len(ResponseCalls(1)) = 3
    /\ Len(ResponseCalls(2)) > 3
    /\ Count(log, "after_this_request") = 2
    /\ result = [kind |-> "returned", val |-> "InternalServerError"]

\* ------------------------------------------------------ streamed responses
\* RequestContext.__enter__(): self.push()
RequestContext_enter(r) ==
    /\ Len(req_tokens[r]) < MaxDepth
    /\ Outstanding < MaxStack
    /\ needs_app_ctx(CtxState, r) => HasFreshAppCtx(CtxState)
    /\ \E S \in {RequestContext_push(CtxState, r, open_session[r])} :
           /\ SetCtx(Collect(S))
           /\ log' = log \o S.log
           /\ raised' = S.raised
    /\ op' = [name |-> "RequestContext.__enter__", ctx |-> r]
    /\ cycle' = CycleAfterPush(r)
    /\ UNCHANGED <<extvars, lookup, g, cfgvars, wsgivars>>

\* stream_with_context(gen), called by the view function before it returns:
\* `wrapped_g = generator(); next(wrapped_g)` runs generator() to its first
\* yield, `ctx = _cv_request.get(None)` and the push of `with ctx:`
StreamWithContext ==
    /\ pc = "finalize_request"
    /\ rv = "view_rv"
    /\ ~from_error_handler
    /\ cv_request # None
    /\ Len(req_tokens[cv_request]) = 1
    /\ RequestContext_enter(cv_request)

\* the response of wsgi_app is iterated by the server after wsgi_app has
\* returned: generator() resumes after its first yield
Streaming ==
    /\ pc = "done"
    /\ result.kind = "returned"
    /\ req_tokens[W] # <<>>
    /\ cv_request = W

\* RequestContext.__exit__(exc_type, exc_value, tb): self.pop(exc_value);
\* k and ka say which request / app teardown callback raises (0: none)
RequestContext_exit(r, exc_value, k, ka) ==
    /\ k <= (IF clear_request(CtxState, r)
             THEN Len(TeardownRequestOrder(CurrentBlueprints(CtxState)))
             ELSE 0)
    /\ ka <= (IF Last(req_tokens[r]).app_ctx # None
              THEN Len(TeardownAppcontextOrder) ELSE 0)
    /\ \E S \in {RequestContext_pop(CtxState, r, exc_value, exc_value, k, ka)} :
           /\ SetCtx(Collect(S))
           /\ log' = log \o S.log
           /\ raised' = S.raised
           /\ cycle' = CycleAfterPop(r, S.log)
    /\ op' = [name |-> "RequestContext.__exit__", ctx |-> r]
    /\ UNCHANGED <<extvars, lookup, g, cfgvars, wsgivars>>

\* generator() ends and leaves its `with ctx:` block: `yield from gen` is
\* exhausted (exc_value is None), or wrapped_g.close() raises GeneratorExit
\* at the yield
StreamEnd ==
    /\ Streaming
    /\ \E e \in {None, "GeneratorExit"} :
       \E k \in 0..MaxTeardown : \E ka \in 0..MaxTeardown :
           RequestContext_exit(W, e, k, ka)

NextStream ==
    \/ NextWsgi
    \/ StreamWithContext
    \/ StreamEnd

InitStream ==
    /\ InitWsgiWith(PlainSetups, <<>>, {"KeyError"})
    /\ url_match[W] = Matched(<<"index">>)
    /\ open_session[W] = "session"

SpecStream == InitStream /\ [][NextStream]_vars

\* ------------------------------------------------------------------ C38
\* the request whose view wrapped its generator in stream_with_context
Streamed == op = [name |-> "RequestContext.__enter__", ctx |-> W]
StreamEnded ==
    pc = "done" /\ op = [name |-> "RequestContext.__exit__", ctx |-> W]

\* C38: when the view has called stream_with_context, the request context
\* holds two tokens when wsgi_app pops it, the second one made by the push
\* of the generator; the pop of wsgi_app then calls no teardown callback
\* and sends no teardown signal, and leaves the request context and the
\* application context it pushed current, each with one token. The pop
\* made when the generator is exhausted or closed calls
\* do_teardown_request and do_teardown_appcontext, once each in the
\* request: every request-teardown and app-teardown callback is called
\* once when none of them raises, and the context slots are empty again.
C38_StreamKeepsContextUntilGeneratorEnds ==
    /\ (Streamed /\ pc = "pop") =>
           /\ Len(req_tokens[W]) = 2
           /\ Last(req_tokens[W]) = [old |-> W, app_ctx |-> None]
    /\ (Streamed /\ pc = "done") =>
           /\ cv_request = W
           /\ Len(req_tokens[W]) = 1
           /\ cv_app = req_tokens[W][1].app_ctx
           /\ Len(app_tokens[cv_app]) = 1
           /\ \A i \in 1..Len(log) :
                  log[i].ev \notin {"do_teardown_request", "teardown_request",
                                    "request_tearing_down", "request_close",
                                    "do_teardown_appcontext",
                                    "teardown_appcontext",
                                    "appcontext_tearing_down",
                                    "appcontext_popped"}
           /\ raised = None
    /\ StreamEnded =>
           /\ Count(log, "do_teardown_request") = 1
           /\ Count(log, "do_teardown_appcontext") = 1
           /\ cv_request = None /\ cv_app = None
           /\ req_tokens[W] = <<>>
           /\ \A a \in AppCtxs : app_tokens[a] = <<>>
           /\ raised = None =>
                  /\ CallsIn(log, "teardown_request") =
                         TeardownRequestOrder(blueprints(url_rule[W]))
                  /\ CallsIn(log, "teardown_appcontext") =
                         TeardownAppcontextOrder
                  /\ Count(log, "request_tearing_down") = 1
                  /\ Count(log, "appcontext_tearing_down") = 1

\* the generator of a streamed response was closed after wsgi_app had
\* returned the response, and the teardown callbacks of the request and
\* of the application context ran then, with GeneratorExit
C38_Witness ==
    /\ StreamEnded
    /\ raised = None
    /\ result.kind = "returned"
    /\ Len(CallsIn(log, "teardown_request")) >= 2
    /\ CallsIn(log, "teardown_appcontext") # <<>>
    /\ \E i \in 1..Len(log) :
           log[i].ev = "teardown_request" /\ log[i].arg = "GeneratorExit"

\* ------------------------------------------- copies in execution units
\* a request context is pushed in one unit, copied, and the copy is pushed
\* and popped in another unit (copy_current_request_context: the wrapper
\* runs `with ctx:` around the function, for example in a greenlet)
NextCopyUnits ==
    /\ ~Fatal
    /\ \/ \E u \in Units, copy_context \in BOOLEAN : UnitStart(u, copy_context)
       \/ \E u \in Units : UnitSwitch(u)
       \/ \E o \in ReqCtxs, c \in ReqCtxs :
             Owner[o] = unit /\ Owner[c] # unit /\ Copy(o, c)
       \/ \E r \in ReqCtxs :
             /\ Owner[r] = unit /\ Outstanding < MaxPushes
             /\ ReqPush(r, open_session[r])
       \/ \E r \in ReqCtxs, args \in PopArgs, k \in 0..1, ka \in 0..1 :
             Owner[r] = unit /\ ReqPop(r, args, k, ka)

SpecCopyUnits == InitCtx /\ [][NextCopyUnits]_vars

\* ------------------------------------------------------------------ C39
\* C39: the pop that takes the only token of a context made by copy(), the
\* copy being the current request context, runs do_teardown_request, calls
\* the request-teardown callbacks in their order up to one that raises,
\* closes the request object when none raised, and clears the request's
\* environ back-reference; it does so whatever the number of tokens of the
\* original context, whose request object is the same and whose token list
\* the pop leaves as it is.
C39_CopyTearsDownSharedRequest ==
    [][\A c \in ReqCtxs : \A args \in PopArgs : \A k \in 0..1 : \A ka \in 0..1 :
          (/\ copy_of[c] # None
           /\ request[c] = request[copy_of[c]]
           /\ Len(req_tokens[c]) = 1
           /\ cv_request = c
           /\ Last(req_tokens[c]).app_ctx \in {None, cv_app}
           /\ op'.name = "RequestContext.pop"
           /\ Owner[c] = unit
           /\ ReqPop(c, args, k, ka)) =>
              LET o == copy_of[c]
                  order == TeardownRequestOrder(blueprints(url_rule[c]))
              IN  /\ Count(log', "do_teardown_request") = 1
                  /\ CallsIn(log', "teardown_request") =
                         IF k = 0 THEN order ELSE SubSeq(order, 1, k)
                  /\ Count(log', "request_close") = IF k = 0 THEN 1 ELSE 0
                  /\ Count(log', "environ_cleared") = 1
                  /\ req_tokens'[c] = <<>>
                  /\ req_tokens'[o] = req_tokens[o]
                  /\ request'[o] = request[c]]_vars

\* the copy r2 of r1 has just been popped in unit u2: the request object
\* of both was closed and its environ back-reference cleared, while r1 is
\* still pushed and current in unit u1
C39_Witness ==
    /\ op = [name |-> "RequestContext.pop", ctx |-> "r2"]
    /\ copy_of["r2"] = "r1"
    /\ request["r2"] = request["r1"]
    /\ unit = "u2"
    /\ parked["u1"].cv_request = "r1"
    /\ Len(req_tokens["r1"]) = 1
    /\ req_tokens["r2"] = <<>>
    /\ raised = None
    /\ Count(log, "request_close") = 1
    /\ Count(log, "environ_cleared") = 1
    /\ CallsIn(log, "teardown_request") # <<>>
====
